---- MODULE Spec2Model ----
(***************************************************************************)
(* A model of the YouTube summarizer: the video-id resolvers, the          *)
(* generateSummary assembler, the Index page's handleSubmit pipeline and   *)
(* the image-upload path.  JavaScript strings are TLA+ strings, read one   *)
(* character at a time with Ch; regular expressions are translated to      *)
(* operators that follow the backtracking order of the regex engine.       *)
(***************************************************************************)
EXTENDS Integers, Sequences, FiniteSets, TLC

(***************************************************************************)
(* Strings                                                                 *)
(***************************************************************************)

\* JavaScript null / undefined for a string-valued expression.
null == "<null>"
undefined == "<undefined>"
\* JavaScript undefined for an object-valued field.
absent == [absent |-> TRUE]

\* The character of s at position i (1-based), "" outside the string.
Ch(s, i) == IF i >= 1 /\ i <= Len(s) THEN SubSeq(s, i, i) ELSE ""

\* s holds the literal lit at position i.
StartsAt(s, i, lit) ==
    /\ i >= 1
    /\ i + Len(lit) - 1 <= Len(s)
    /\ SubSeq(s, i, i + Len(lit) - 1) = lit

\* The part of s from position i to its end.
From(s, i) == IF i > Len(s) THEN "" ELSE SubSeq(s, i, Len(s))

Max(S) == CHOOSE x \in S : \A y \in S : y <= x
Min(S) == CHOOSE x \in S : \A y \in S : x <= y

\* JavaScript truthiness of a string | null | undefined value.
Truthy(s) == s # null /\ s # undefined /\ s # ""

Letters ==
    {"a","b","c","d","e","f","g","h","i","j","k","l","m","n","o","p","q","r",
     "s","t","u","v","w","x","y","z","A","B","C","D","E","F","G","H","I","J",
     "K","L","M","N","O","P","Q","R","S","T","U","V","W","X","Y","Z"}
Digits == {"0","1","2","3","4","5","6","7","8","9"}

\* Regex classes: \w, \s, "." (no s flag), and the negated classes of the
\* three resolvers.
IsWord(c) == c \in Letters \cup Digits \cup {"_"}
IsSpace(c) == c \in {" ", "\t", "\n", "\r", "\f"}
IsDot(c) == c # "" /\ c \notin {"\n", "\r"}
IsNotDelim(c) == c # "" /\ c \notin {"#", "&", "?"}
IsIdChar(c) == c # "" /\ c \notin {"\"", "&", "?", "/"} /\ ~IsSpace(c)
IsBareIdChar(c) == c \in Letters \cup Digits \cup {"_", "-"}

\* Every character of s in positions a..b satisfies the class.
AllDot(s, a, b) == \A k \in a..b : IsDot(Ch(s, k))

\* VideoIdResolver: extractVideoID (videoAnalysisService) and
\* extractYouTubeVideoId (supabaseService) share the regex
\*   /^.*((youtu.be\/)|(v\/)|(\/u\/\w\/)|(embed\/)|(watch\?))\??v?=?([^#&?]*).*/

\* The position just after the alternative of group 1 that matches at i, or 0.
\* The five alternatives start with different characters, so at most one
\* matches at a position.
ShapeEnd(s, i) ==
    IF StartsAt(s, i, "youtu") /\ IsDot(Ch(s, i + 5)) /\ StartsAt(s, i + 6, "be/")
    THEN i + 9
    ELSE IF StartsAt(s, i, "v/") THEN i + 2
    ELSE IF StartsAt(s, i, "/u/") /\ IsWord(Ch(s, i + 3)) /\ Ch(s, i + 4) = "/"
    THEN i + 5
    ELSE IF StartsAt(s, i, "embed/") THEN i + 6
    ELSE IF StartsAt(s, i, "watch?") THEN i + 6
    ELSE 0

\* The positions where group 1 can start: the leading ^.* must cover what is
\* before it.
ShapeStarts(s) ==
    LET breaks == {k \in 1..Len(s) : ~IsDot(Ch(s, k))}
        last == IF breaks = {} THEN Len(s) ELSE Min(breaks)
    IN  {i \in 1..last : Ch(s, i) \in {"y", "v", "/", "e", "w"} /\ ShapeEnd(s, i) # 0}

\* \??v?=? : three greedy optional characters.  What follows them always
\* matches, so the engine never gives one back.
SkipOptional(s, p, c) == IF Ch(s, p) = c THEN p + 1 ELSE p
AfterPrefix(s, p) == SkipOptional(s, SkipOptional(s, SkipOptional(s, p, "?"), "v"), "=")

\* ([^#&?]*) : the longest run of non-delimiters from p.
RunEnd(s, p) ==
    LET stops == {k \in p..Len(s) : ~IsNotDelim(Ch(s, k))}
    IN  IF stops = {} THEN Len(s) + 1 ELSE Min(stops)

\* match[7] of url.match(regExp), or null when the regex does not match.
\* The greedy ^.* makes the engine take the LAST position where a shape
\* matches.
Group7(s) ==
    LET starts == ShapeStarts(s)
    IN  IF starts = {} THEN null
        ELSE LET p == AfterPrefix(s, ShapeEnd(s, Max(starts)))
                 e == RunEnd(s, p)
             IN  IF e <= p THEN "" ELSE SubSeq(s, p, e - 1)

\* extractVideoID of videoAnalysisService, computed.
MatchVideoID(url) ==
    IF ~Truthy(url) THEN null
    ELSE LET m == Group7(url)
         IN  IF m # null /\ Len(m) = 11 THEN m ELSE null

\* extractYouTubeVideoId of supabaseService, computed.
MatchYouTubeVideoId(url) ==
    IF ~Truthy(url) THEN null
    ELSE IF Len(url) = 11 /\ \A k \in 1..11 : IsBareIdChar(Ch(url, k)) THEN url
    ELSE LET m == Group7(url)
         IN  IF m # null /\ Truthy(m) /\ Len(m) = 11 THEN m ELSE null

\* Index.extractVideoId, the page's own resolver:
\*   /(?:youtube\.com\/(?:[^\/]+\/.+\/|(?:v|e(?:mbed)?)\/|.*[?&]v=)|youtu\.be\/)([^"&?\/\s]{11})/
\* an unanchored search: leftmost start, alternatives in order, greedy
\* repetitions longest first.

\* ([^"&?\/\s]{11}) at position p.
IdAt(s, p) == p >= 1 /\ p + 10 <= Len(s) /\ \A k \in p..(p + 10) : IsIdChar(Ch(s, k))

\* [^\/]+\/.+\/ from p: the first run of non-slashes, a slash, then .+ and a
\* slash.  The set holds every position the group may start at.
PathIdStarts(s, p) ==
    LET slashes == {k \in p..Len(s) : Ch(s, k) = "/"}
    IN  IF slashes = {} \/ Min(slashes) = p
        THEN {}
        ELSE LET q == Min(slashes)
             IN  {r + 1 : r \in {r \in (q + 2)..Len(s) :
                        Ch(s, r) = "/" /\ AllDot(s, q + 1, r - 1) /\ IdAt(s, r + 1)}}

\* (?:v|e(?:mbed)?)\/ from p.
ShortPathIdStarts(s, p) ==
    {e \in {IF StartsAt(s, p, "v/") THEN p + 2 ELSE 0,
            IF StartsAt(s, p, "embed/") THEN p + 6 ELSE 0,
            IF StartsAt(s, p, "e/") THEN p + 2 ELSE 0} : e # 0 /\ IdAt(s, e)}

\* .*[?&]v= from p.
QueryIdStarts(s, p) ==
    {r + 3 : r \in {r \in p..Len(s) :
        Ch(s, r) \in {"?", "&"} /\ StartsAt(s, r + 1, "v=")
        /\ AllDot(s, p, r - 1) /\ IdAt(s, r + 3)}}

\* Where group 1 starts for a match that starts at position i, or 0: the
\* first success in the engine's order.
IdStartFrom(s, i) ==
    IF StartsAt(s, i, "youtube.com/")
    THEN LET p == i + 12
         IN  IF PathIdStarts(s, p) # {} THEN Max(PathIdStarts(s, p))
             ELSE IF ShortPathIdStarts(s, p) # {} THEN Min(ShortPathIdStarts(s, p))
             ELSE IF QueryIdStarts(s, p) # {} THEN Max(QueryIdStarts(s, p))
             ELSE 0
    ELSE IF StartsAt(s, i, "youtu.be/") /\ IdAt(s, i + 9) THEN i + 9
    ELSE 0

\* extractVideoId of Index, computed.
SearchVideoId(url) ==
    LET starts == {i \in 1..Len(url) : Ch(url, i) = "y" /\ IdStartFrom(url, i) # 0}
    IN  IF starts = {} THEN ""
        ELSE LET g == IdStartFrom(url, Min(starts))
             IN  SubSeq(url, g, g + 10)

\* YouTubeInput.validateUrl:
\*   /^(https?:\/\/)?(www\.)?(youtube\.com|youtu\.?be)\/.+$/

\* The positions after an optional literal at any of the positions ps.
AfterOptional(s, ps, lit) ==
    ps \cup {p + Len(lit) : p \in {p \in ps : StartsAt(s, p, lit)}}

\* validateUrl of YouTubeInput, computed.
TestUrl(url) ==
    LET afterScheme == AfterOptional(url, AfterOptional(url, {1}, "http://"), "https://")
        afterWww == AfterOptional(url, afterScheme, "www.")
        hosts == {<<p, h>> \in afterWww \X {"youtube.com", "youtu.be", "youtube"} :
                    StartsAt(url, p, h)}
    IN  \E ph \in hosts :
            LET e == ph[1] + Len(ph[2])
            IN  /\ Ch(url, e) = "/"
                /\ e + 1 <= Len(url)
                /\ AllDot(url, e + 1, Len(url))

\* String.prototype.trim() leaves nothing: url is blank.
IsBlank(url) == \A k \in 1..Len(url) : IsSpace(Ch(url, k))


(***************************************************************************)
(* SummaryAssembler: the pure parts of generateSummary                     *)
(***************************************************************************)

\* A sort that is not stable: x is put before the items of equal timestamp.
InsertBeforeEqual(sorted, x) ==
    LET later == {k \in 1..Len(sorted) : sorted[k].timestamp >= x.timestamp}
        at == IF later = {} THEN Len(sorted) + 1 ELSE Min(later)
    IN  SubSeq(sorted, 1, at - 1) \o <<x>> \o SubSeq(sorted, at, Len(sorted))

\* Array.prototype.sort with (a, b) => a.timestamp - b.timestamp is a stable
\* sort (ECMAScript 2019): an insertion sort that puts x after every item
\* whose timestamp is not greater.
InsertByTimestamp(sorted, x) ==
    LET later == {k \in 1..Len(sorted) : sorted[k].timestamp > x.timestamp}
        at == IF later = {} THEN Len(sorted) + 1 ELSE Min(later)
    IN  SubSeq(sorted, 1, at - 1) \o <<x>> \o SubSeq(sorted, at, Len(sorted))

RECURSIVE SortFrom(_, _)
SortFrom(sorted, rest) ==
    IF rest = <<>> THEN sorted
    ELSE SortFrom(InsertByTimestamp(sorted, Head(rest)), Tail(rest))

\* Variant: the concatenation left unsorted.
Unsorted(items) == items
SortByTimestamp(items) == SortFrom(<<>>, items)

\* The fence pattern of generatePDF, /```\w*\n|```/g, removed from text.  The
\* lexer takes no backquote inside a string, so Fence stands for the three
\* backquotes and FenceChar for one of them.
FenceChar == "~"
Fence == FenceChar \o FenceChar \o FenceChar

\* The position after \w*\n from p, or 0: the run of word characters must be
\* followed by a line feed (a line feed is no word character, so the run
\* cannot be shortened to find one).
WordsThenNewline(s, p) ==
    LET ends == {k \in p..Len(s) : ~IsWord(Ch(s, k))}
        e == IF ends = {} THEN Len(s) + 1 ELSE Min(ends)
    IN  IF Ch(s, e) = "\n" THEN e + 1 ELSE 0

RECURSIVE StripFrom(_, _)
StripFrom(s, i) ==
    IF i > Len(s) THEN ""
    ELSE IF StartsAt(s, i, Fence)
         THEN IF WordsThenNewline(s, i + 3) # 0
              THEN StripFrom(s, WordsThenNewline(s, i + 3))
              ELSE StripFrom(s, i + 3)
         ELSE Ch(s, i) \o StripFrom(s, i + 1)

StripFences(codeSnippet) == StripFrom(codeSnippet, 1)

\* codeBlocks.map(block => block.text)
\* Variant: the fences stripped while mapping.
MapTextStripped(blocks) == [k \in 1..Len(blocks) |-> StripFences(blocks[k].text)]
MapText(blocks) == [k \in 1..Len(blocks) |-> blocks[k].text]

\* A template literal prints an undefined value as the word.
Tpl(v) == IF v = undefined THEN "undefined" ELSE IF v = null THEN "null" ELSE v

\* a || b on strings.
OrDefault(v, d) == IF Truthy(v) THEN v ELSE d

FallbackText(videoDetails) ==
    "This video titled \"" \o Tpl(videoDetails.title) \o "\" by " \o Tpl(videoDetails.channel)
    \o " provides a comprehensive overview of the topic.\n      \n"
    \o "The content is structured to help viewers understand the subject matter through clear explanations and examples. "
    \o "The presenter breaks down complex concepts into digestible segments, making it easier for the audience to follow along."

\* text: transcriptSummary || `This video titled ...`
\* Variant: no fallback text.
SummaryTextNoFallback(transcriptSummary, videoDetails) ==
    OrDefault(transcriptSummary, "")
\* Variant: ?? in place of ||.
SummaryTextNullish(transcriptSummary, videoDetails) ==
    IF transcriptSummary \in {null, undefined} THEN FallbackText(videoDetails) ELSE transcriptSummary
SummaryText(transcriptSummary, videoDetails) ==
    OrDefault(transcriptSummary, FallbackText(videoDetails))

\* The locals of generateSummary as declared, before the captions are read.
InitialLocals ==
    [transcriptSummary |-> undefined, timestamps |-> <<>>, keyPoints |-> <<>>,
     codeSnippets |-> <<>>]

\* The locals after processTranscript returned processedContent.
\* Variant: the key points left out of timestamps.
ProcessedLocalsCodeOnly(processedContent) ==
    [transcriptSummary |-> processedContent.summary,
     keyPoints |-> processedContent.keyPoints,
     timestamps |-> SortByTimestamp(processedContent.codeBlocks),
     codeSnippets |-> MapText(processedContent.codeBlocks)]
ProcessedLocals(processedContent) ==
    [transcriptSummary |-> processedContent.summary,
     keyPoints |-> processedContent.keyPoints,
     timestamps |-> SortByTimestamp(processedContent.keyPoints \o processedContent.codeBlocks),
     codeSnippets |-> MapText(processedContent.codeBlocks)]

\* const summary: SummaryContent = { ... }
\* Variant: the channel reference put before the watch URL.
BuildSummaryChannelFirst(videoUrl, videoDetails, locals) ==
    [text |-> SummaryText(locals.transcriptSummary, videoDetails),
     code |-> locals.codeSnippets,
     links |-> <<"https://www.youtube.com/channel/" \o Tpl(videoDetails.channel), videoUrl>>,
     imageReferences |-> <<videoDetails.thumbnail>>,
     timestamps |-> locals.timestamps,
     keyPoints |-> locals.keyPoints,
     transcriptSummary |-> locals.transcriptSummary]
BuildSummary(videoUrl, videoDetails, locals) ==
    [text |-> SummaryText(locals.transcriptSummary, videoDetails),
     code |-> locals.codeSnippets,
     links |-> <<videoUrl, "https://www.youtube.com/channel/" \o Tpl(videoDetails.channel)>>,
     imageReferences |-> <<videoDetails.thumbnail>>,
     timestamps |-> locals.timestamps,
     keyPoints |-> locals.keyPoints,
     transcriptSummary |-> locals.transcriptSummary]

(***************************************************************************)
(* Bounds and inputs                                                       *)
(***************************************************************************)

\* The largest caption timestamp, the most items one transcript yields, the
\* most rows of image_references, and the most uploads in flight at once.
MaxTimestamp == 1
MaxItems == 3
MaxStoredRows == 2
MaxInFlightUploads == 1

\* What the oEmbed endpoint answers: the usual object, and a JSON object
\* without the fields.
OEmbedFull ==
    [title |-> "Never Gonna Give You Up", author_name |-> "Rick Astley",
     description |-> undefined, duration |-> undefined]
OEmbedBare ==
    [title |-> undefined, author_name |-> undefined,
     description |-> undefined, duration |-> undefined]
OEmbedData == {OEmbedFull, OEmbedBare}

\* How the metadata fetch fails: fetch() rejects (upstream unavailable), or
\* response.json() rejects (malformed body).
FetchErrors == {"Failed to fetch", "Unexpected token < in JSON at position 0"}

\* processTranscript's output {summary, keyPoints, codeBlocks}.
KeyPointItems ==
    {[timestamp |-> ts, text |-> "Key idea", type |-> "key_point"] : ts \in 0..MaxTimestamp}
CodeTexts == {"x = 1", Fence \o "js\nx = 1\n" \o Fence}
CodeItems ==
    {[timestamp |-> ts, text |-> c, type |-> "code"] : ts \in 0..MaxTimestamp, c \in CodeTexts}
TranscriptSummaries == {"", "A talk about specifications."}
ProcessedContents ==
    UNION {UNION {{[summary |-> s, keyPoints |-> kp, codeBlocks |-> cb] :
                      s \in TranscriptSummaries,
                      kp \in [1..a -> KeyPointItems],
                      cb \in [1..b -> CodeItems]}
                  : b \in 0..(MaxItems - a)}
           : a \in 0..MaxItems}

EmptyTranscript == [summary |-> "", keyPoints |-> <<>>, codeBlocks |-> <<>>]
RichTranscript ==
    [summary |-> "A talk about specifications.",
     keyPoints |-> <<[timestamp |-> 1, text |-> "Key idea", type |-> "key_point"]>>,
     codeBlocks |-> <<[timestamp |-> 0, text |-> Fence \o "js\nx = 1\n" \o Fence, type |-> "code"]>>]

\* The environment of a run: whether VITE_YOUTUBE_API_KEY is set, what the
\* metadata endpoint answers, and what the captions of a video process to.
PageWorlds ==
    {[apiKey |-> TRUE, oembed |-> OEmbedFull, transcript |-> RichTranscript],
     [apiKey |-> FALSE, oembed |-> OEmbedFull, transcript |-> EmptyTranscript]}
WideWorlds ==
    {[apiKey |-> TRUE, oembed |-> d, transcript |-> c] :
        d \in OEmbedData, c \in ProcessedContents}
    \cup {[apiKey |-> FALSE, oembed |-> d, transcript |-> EmptyTranscript] : d \in OEmbedData}

\* What the user types into YouTubeInput.
TypedUrls ==
    {"https://www.youtube.com/watch?v=dQw4w9WgXcQ",
     "https://youtu.be/a-b_c-d_e-f",
     "https://www.youtube.com/watch?feature=share&v=dQw4w9WgXcQ",
     "https://youtu.be/watch?v=dQw4w9WgXcQ",
     "https://www.youtube.com/shorts/dQw4w9WgXcQ",
     "https://youtu.be/dQw4w#WgXcQ/embed/dQw4w9WgXcQ",
     "dQw4w9WgXcQ",
     "   "}

\* What the user gives ImageUploader: a file, or the URL of a video.
UploadFiles == {"my chart.png"}
UploadYoutubeUrls == {"https://youtu.be/a-b_c-d_e-f"}
\* Date.now() as uploadImage prints it into the file name.
ClockReadings == {"1700000000000"}

(***************************************************************************)
(* The resolvers as the rest of the model calls them.  A resolver is a     *)
(* pure function of its string, so its results on the strings that occur   *)
(* in a run are tabulated once; any other string is matched afresh.        *)
(***************************************************************************)

WatchUrl(id) == "https://www.youtube.com/watch?v=" \o id

PageUrls ==
    TypedUrls \cup {WatchUrl(SearchVideoId(u)) : u \in TypedUrls} \cup UploadYoutubeUrls

VideoIDTable == [u \in PageUrls |-> MatchVideoID(u)]
YouTubeVideoIdTable == [u \in PageUrls |-> MatchYouTubeVideoId(u)]
VideoIdTable == [u \in PageUrls |-> SearchVideoId(u)]
ValidTable == [u \in PageUrls |-> TestUrl(u)]

\* function extractVideoID(url: string): string | null
extractVideoID(url) == IF url \in PageUrls THEN VideoIDTable[url] ELSE MatchVideoID(url)

\* export function extractYouTubeVideoId(url: string): string | null
extractYouTubeVideoId(url) ==
    IF url \in PageUrls THEN YouTubeVideoIdTable[url] ELSE MatchYouTubeVideoId(url)

\* const extractVideoId = (url: string): string
extractVideoId(url) == IF url \in PageUrls THEN VideoIdTable[url] ELSE SearchVideoId(url)

\* const validateUrl = (url: string): boolean
validateUrl(url) == IF url \in PageUrls THEN ValidTable[url] ELSE TestUrl(url)

\* export function getEmbedUrl(url: string): string
\* Variant: the id printed into the URL without the test for null.
getEmbedUrlUnguarded(url) == "https://www.youtube.com/embed/" \o Tpl(extractVideoID(url))
getEmbedUrl(url) ==
    LET id == extractVideoID(url)
    IN  IF Truthy(id) THEN "https://www.youtube.com/embed/" \o id ELSE ""


ReqIds == {1, 2}
UploadIds == 1..MaxInFlightUploads

(***************************************************************************)
(* State                                                                   *)
(***************************************************************************)

VARIABLES
    videoUrl,       \* Index: useState videoUrl
    videoId,        \* Index: useState videoId
    embedUrl,       \* Index: useState embedUrl
    summaryData,    \* Index: useState<SummaryData>
    req,            \* the handleSubmit calls: where each is, and its locals
    world,          \* the environment of the run
    imageTable,     \* the rows of image_references, in insertion order
    upl,            \* the handleUpload calls: where each is, and its locals
    isUploading,    \* ImageUploader: useState isUploading, of the mounted instance
    imageLog,       \* the last lookup and what it returned, the uploads that
                    \* arrived since, and the last insert and what it returned
    resolveInput,   \* the string handed to the resolvers
    resolved,       \* what the resolvers returned for it
    isGenerating,   \* PDFExport: useState isGenerating
    exp,            \* the handleExport call: where it is, and its locals
    downloads,      \* the files the browser was told to download: name and pages
    imageInput,     \* the token handed to the image-resolution functions
    imageResolved,  \* what they returned for it
    uploads,        \* the calls of uploadImage: who called, and the token made
    auth            \* the session, AuthProvider's state, and the ProtectedRoute

exportVars == <<isGenerating, exp, downloads>>
imageVars == <<imageInput, imageResolved>>

vars ==
    <<videoUrl, videoId, embedUrl, summaryData, req, world, imageTable, upl,
      isUploading, imageLog, resolveInput, resolved, exportVars, imageVars, uploads, auth>>
pageVars == <<videoUrl, videoId, embedUrl, summaryData, req, world, imageTable, upl,
              isUploading, imageLog, exportVars>>

IdleFrame ==
    [pc |-> "idle", url |-> "", extractedVideoId |-> "", videoUrl |-> "",
     videoDetails |-> absent, fetchError |-> "", captions |-> "none", summary |-> absent,
     outcome |-> "none"]

IdleUpload ==
    [pc |-> "idle", videoId |-> "", youtubeUrl |-> "", file |-> null,
     fileName |-> "", imagePath |-> null, orphan |-> FALSE]

EmptyLog == [stored |-> <<>>, uploaded |-> <<>>, lookup |-> "none", store |-> absent]

NoInput == [shape |-> "none", id |-> "", url |-> ""]
NoToken ==
    [kind |-> "none", id |-> "", bucket |-> "", path |-> "", token |-> "",
     signed |-> "ok", public |-> "ok"]
NotLoaded ==
    [done |-> FALSE, signedUrl |-> absent, imageUrl |-> absent, shown |-> absent,
     asked |-> FALSE]
NotResolved ==
    [done |-> FALSE, videoID |-> null, youTubeVideoId |-> null, pageVideoId |-> "",
     embedUrl |-> ""]

\* Nothing is handed to the resolvers or to the image-resolution functions.
NothingToResolve ==
    /\ resolveInput = NoInput
    /\ resolved = NotResolved
    /\ imageInput = NoToken
    /\ imageResolved = NotLoaded

InFlight(r) == req[r].pc \notin {"idle", "done"}

(***************************************************************************)
(* The view-model updates of Index                                         *)
(***************************************************************************)

\* setSummaryData({ isLoading: true })
LoadingState ==
    [videoDetails |-> absent, summary |-> absent, isLoading |-> TRUE, error |-> undefined]

\* setSummaryData((prev) => ({ ...prev, videoDetails: details }))
WithDetails(prev, details) == [prev EXCEPT !.videoDetails = details]

\* [...(summary.imageReferences || []), ...supabaseImages]
\* Variant: the stored references spread first.
CombineImagesStoredFirst(summary, supabaseImages) ==
    [summary EXCEPT !.imageReferences = supabaseImages \o summary.imageReferences]
CombineImages(summary, supabaseImages) ==
    [summary EXCEPT !.imageReferences = summary.imageReferences \o supabaseImages]

\* setSummaryData((prev) => ({ ...prev, summary: combinedSummary, isLoading: false }))
\* Variant: isLoading not cleared.
WithSummaryStillLoading(prev, combinedSummary) ==
    [prev EXCEPT !.summary = combinedSummary]
WithSummary(prev, combinedSummary) ==
    [prev EXCEPT !.summary = combinedSummary, !.isLoading = FALSE]

\* catch: setSummaryData({ isLoading: false, error: ... }).  React applies the
\* updates queued in one continuation together, so an update queued just
\* before the throw is replaced with the rest of prev.
\* Variant: the catch spreading prev.
ErrorStateKeepsPrev(prev, message) ==
    [prev EXCEPT !.isLoading = FALSE, !.error = message]
\* Variant: the catch leaving isLoading as it is.
ErrorStateStillLoading(prev, message) ==
    [videoDetails |-> absent, summary |-> absent, isLoading |-> TRUE, error |-> message]
ErrorState(prev, message) ==
    [videoDetails |-> absent, summary |-> absent, isLoading |-> FALSE, error |-> message]

\* if (!extractedVideoId) throw new Error("Could not extract video ID")
\* Variant: the check left out.
IdCheckSkipped(extractedVideoId) == TRUE
IdCheckPasses(extractedVideoId) == Truthy(extractedVideoId)

\* handleImageUploadSuccess
\* Variant: without the early return for a state that has no summary.
AppendImageUnguarded(prev, imageUrl) ==
    IF prev.summary = absent
    THEN [prev EXCEPT !.summary = [imageReferences |-> <<imageUrl>>]]
    ELSE [prev EXCEPT !.summary.imageReferences = @ \o <<imageUrl>>]
AppendImage(prev, imageUrl) ==
    IF prev.summary = absent THEN prev
    ELSE [prev EXCEPT !.summary.imageReferences = @ \o <<imageUrl>>]

(***************************************************************************)
(* The collaborators                                                       *)
(***************************************************************************)

Thrown(message) == [ok |-> FALSE, message |-> message, value |-> absent]
Returned(value) == [ok |-> TRUE, message |-> "", value |-> value]

VideoDetailsOf(id, data) ==
    [title |-> data.title,
     description |-> OrDefault(data.description, "Description not available"),
     thumbnail |-> "https://img.youtube.com/vi/" \o id \o "/maxresdefault.jpg",
     channel |-> data.author_name,
     duration |-> OrDefault(data.duration, "Duration not available")]

\* getVideoDetails: catch (error) { console.error(...); throw error; }
\* Variant: the catch returning placeholder details instead of rethrowing.
FetchErrorSwallowed(id, message) == Returned(VideoDetailsOf(id, OEmbedBare))
OnFetchError(id, message) == Thrown(message)

\* What fetch(oembed) and response.json() settle to: the data, or an error.
FetchOutcomes ==
    {[ok |-> TRUE, data |-> world.oembed, error |-> ""]}
    \cup {[ok |-> FALSE, data |-> OEmbedBare, error |-> e] : e \in FetchErrors}

\* What await getVideoDetails(url) settles to when its fetch settles to fetched.
getVideoDetails(url, fetched) ==
    LET id == extractVideoID(url)
    IN  IF ~Truthy(id) THEN Thrown("Invalid YouTube URL")
        ELSE IF fetched.ok THEN Returned(VideoDetailsOf(id, fetched.data))
        ELSE OnFetchError(id, fetched.error)

\* The error of the metadata fetch that getVideoDetails(url) made, "" if it
\* made none or the fetch succeeded.
FetchErrorOf(url, fetched) ==
    IF Truthy(extractVideoID(url)) /\ ~fetched.ok THEN fetched.error ELSE ""

RECURSIVE RowsOf(_, _)
RowsOf(rows, id) ==
    IF rows = <<>> THEN <<>>
    ELSE IF Head(rows).video_id = id
         THEN <<Head(rows).image_url>> \o RowsOf(Tail(rows), id)
         ELSE RowsOf(Tail(rows), id)

\* What the image_references table does with a query or an insert: it
\* answers, answers with an error, or the call throws.
TableAnswers == {"ok", "error", "throws"}

\* getImageReferences on a failed query: return [] in both branches.
\* Variant: the failure thrown to the caller.
LookupErrorThrown(answer) == Thrown("image_references: " \o answer)
OnLookupError(answer) == Returned(<<>>)

\* What await getImageReferences(videoId) settles to: the image_url of the
\* rows of the video, or [] when the query fails.
getImageReferences(id, answer) ==
    IF answer = "ok" THEN Returned(RowsOf(imageTable, id)) ELSE OnLookupError(answer)

\* What await storeImageReference(videoId, imageUrl) settles to.
storeImageReference(answer) == Returned(answer = "ok")

\* file.name.replace(/\s+/g, '_')
RECURSIVE ReplaceSpaces(_, _)
ReplaceSpaces(s, i) ==
    IF i > Len(s) THEN ""
    ELSE IF IsSpace(Ch(s, i))
         THEN (IF IsSpace(Ch(s, i - 1)) THEN "" ELSE "_") \o ReplaceSpaces(s, i + 1)
         ELSE Ch(s, i) \o ReplaceSpaces(s, i + 1)

\* uploadImage: `${Date.now()}_${file.name.replace(/\s+/g, '_')}`
UploadFileName(now, name) == now \o "_" \o ReplaceSpaces(name, 1)

\* How many calls of uploadImage are followed on their own.
MaxUploadCalls == 3

\* uploadImage(file) in some session of the application, at the clock
\* reading now: the bucket/fileName token it makes for the upload.
UploadImageCall(session, name, now) ==
    /\ Len(uploads) < MaxUploadCalls
    /\ uploads' = Append(uploads,
                         [session |-> session, name |-> name, now |-> now,
                          token |-> "video-images/" \o UploadFileName(now, name)])
    /\ UNCHANGED <<pageVars, resolveInput, resolved, imageVars, auth>>

(***************************************************************************)
(* Index.handleSubmit, one action for each stretch between two awaits      *)
(***************************************************************************)

\* The ImageUploader is rendered: {videoId && !summaryData.isLoading && ...}
UploaderMounted == Truthy(videoId) /\ ~summaryData.isLoading

Finish(frame, outcome) == [frame EXCEPT !.pc = "done", !.outcome = outcome]

\* handleSubmit(url) of Index is called and runs to its first await, in the
\* first frame that is free.  Setting isLoading unmounts the ImageUploader:
\* its state is dropped, and the uploads it started go on without it.
handleSubmit(r, url) ==
    /\ ~InFlight(r)
    /\ \A q \in ReqIds : q < r => InFlight(q)
    /\ videoUrl' = url
    /\ videoId' = extractVideoId(url)
    /\ embedUrl' = getEmbedUrl(url)
    /\ summaryData' = LoadingState
    /\ req' = [req EXCEPT ![r] =
                  [IdleFrame EXCEPT !.pc = "getDetails", !.url = url,
                                    !.extractedVideoId = extractVideoId(url)]]
    /\ upl' = [u \in UploadIds |->
                  IF upl[u].pc = "idle" THEN upl[u] ELSE [upl[u] EXCEPT !.orphan = TRUE]]
    /\ isUploading' = FALSE
    /\ imageLog' = EmptyLog
    /\ UNCHANGED <<world, imageTable, resolveInput, resolved, exportVars,
                   imageVars, uploads, auth>>

\* The user submits the form of YouTubeInput (the input and the button are
\* disabled while isLoading), which checks the URL and calls onSubmit(url).
\* Variant: a form that stays enabled while isLoading.
SubmitWhileLoading(r, url) ==
    /\ ~IsBlank(url)
    /\ validateUrl(url)
    /\ handleSubmit(r, url)
Submit(r, url) ==
    /\ ~summaryData.isLoading
    /\ ~IsBlank(url)
    /\ validateUrl(url)
    /\ handleSubmit(r, url)

\* await getVideoDetails(url) settles; on success handleSubmit stores the
\* details, checks the id and calls generateSummary, which runs to its own
\* await getVideoDetails(videoUrl).
DetailsReturn(r) ==
    /\ req[r].pc = "getDetails"
    /\ \E fetched \in FetchOutcomes :
          LET res == getVideoDetails(req[r].url, fetched)
              frame == [req[r] EXCEPT !.fetchError = FetchErrorOf(req[r].url, fetched)]
          IN  IF ~res.ok
              THEN /\ summaryData' = ErrorState(summaryData, res.message)
                   /\ req' = [req EXCEPT ![r] = Finish(frame,
                                 IF res.message = "Invalid YouTube URL"
                                 THEN "invalidUrl" ELSE "metadataError")]
              ELSE IF ~IdCheckPasses(req[r].extractedVideoId)
              THEN /\ summaryData' = ErrorState(WithDetails(summaryData, res.value),
                                                "Could not extract video ID")
                   /\ req' = [req EXCEPT ![r] = Finish(frame, "noVideoId")]
              ELSE /\ summaryData' = WithDetails(summaryData, res.value)
                   /\ req' = [req EXCEPT ![r] =
                                 [frame EXCEPT !.pc = "genDetails",
                                               !.videoUrl = WatchUrl(req[r].extractedVideoId)]]
    /\ UNCHANGED <<videoUrl, videoId, embedUrl, world, imageTable, upl, isUploading,
                   imageLog, resolveInput, resolved, exportVars,
                   imageVars, uploads, auth>>

\* generateSummary returns: handleSubmit goes on to await getImageReferences.
SummaryReturned(frame, locals, captions) ==
    [frame EXCEPT !.pc = "getImages", !.captions = captions,
                  !.summary = BuildSummary(frame.videoUrl, frame.videoDetails, locals)]

\* generateSummary: await getVideoDetails(videoUrl) settles.  Without an API
\* key the captions are not read and the summary is built at once.
GenDetailsReturn(r) ==
    /\ req[r].pc = "genDetails"
    /\ \E fetched \in FetchOutcomes :
          LET res == getVideoDetails(req[r].videoUrl, fetched)
              frame == [req[r] EXCEPT !.fetchError = FetchErrorOf(req[r].videoUrl, fetched)]
          IN  IF ~res.ok
              THEN /\ summaryData' = ErrorState(summaryData, res.message)
                   /\ req' = [req EXCEPT ![r] = Finish(frame,
                                 IF res.message = "Invalid YouTube URL"
                                 THEN "summaryInvalidUrl" ELSE "summaryMetadataError")]
              ELSE /\ summaryData' = summaryData
                   /\ req' = [req EXCEPT ![r] =
                                 IF world.apiKey
                                 THEN [frame EXCEPT !.pc = "fetchCaptions",
                                                    !.videoDetails = res.value]
                                 ELSE SummaryReturned([frame EXCEPT !.videoDetails = res.value],
                                                      InitialLocals, "skipped")]
    /\ UNCHANGED <<videoUrl, videoId, embedUrl, world, imageTable, upl, isUploading,
                   imageLog, resolveInput, resolved, exportVars,
                   imageVars, uploads, auth>>

\* generateSummary: await fetchCaptions(videoId, apiKey) settles; a throw is
\* caught and the summary is built from the locals as declared.
FetchCaptionsReturn(r) ==
    /\ req[r].pc = "fetchCaptions"
    /\ \E ok \in BOOLEAN :
          req' = [req EXCEPT ![r] =
                     IF ok THEN [@ EXCEPT !.pc = "processTranscript"]
                     ELSE SummaryReturned(@, InitialLocals, "fetchFailed")]
    /\ UNCHANGED <<videoUrl, videoId, embedUrl, summaryData, world, imageTable, upl,
                   isUploading, imageLog, resolveInput, resolved, exportVars,
                   imageVars, uploads, auth>>

\* generateSummary: await processTranscript(captions) settles.
ProcessTranscriptReturn(r) ==
    /\ req[r].pc = "processTranscript"
    /\ \E ok \in BOOLEAN :
          req' = [req EXCEPT ![r] =
                     IF ok THEN SummaryReturned(@, ProcessedLocals(world.transcript), "processed")
                     ELSE SummaryReturned(@, InitialLocals, "processFailed")]
    /\ UNCHANGED <<videoUrl, videoId, embedUrl, summaryData, world, imageTable, upl,
                   isUploading, imageLog, resolveInput, resolved, exportVars,
                   imageVars, uploads, auth>>

\* await getImageReferences(extractedVideoId) settles: the summary is shown.
ImageReferencesReturn(r) ==
    /\ req[r].pc = "getImages"
    /\ \E answer \in TableAnswers :
          LET supabaseImages == getImageReferences(req[r].extractedVideoId, answer)
          IN  IF supabaseImages.ok
              THEN /\ summaryData' = WithSummary(summaryData,
                                         CombineImages(req[r].summary, supabaseImages.value))
                   /\ imageLog' = [EmptyLog EXCEPT !.stored = supabaseImages.value,
                                                   !.lookup = answer]
                   /\ req' = [req EXCEPT ![r] = Finish(@, "success")]
              ELSE /\ summaryData' = ErrorState(summaryData, supabaseImages.message)
                   /\ imageLog' = [EmptyLog EXCEPT !.lookup = answer]
                   /\ req' = [req EXCEPT ![r] = Finish(@, "imagesError")]
    /\ UNCHANGED <<videoUrl, videoId, embedUrl, world, imageTable, upl, isUploading,
                   resolveInput, resolved, exportVars,
                   imageVars, uploads, auth>>

(***************************************************************************)
(* ImageUploader.handleUpload                                              *)
(***************************************************************************)

\* Rows stored and rows that uploads in flight may still store.
RowsClaimed == Len(imageTable) + Cardinality({u \in UploadIds : upl[u].pc # "idle"})

\* The user picks a file and presses the button: handleUpload runs to
\* await uploadImage(file), which has named the file from the clock.
UploadFile(u, name, now) ==
    /\ UploaderMounted
    /\ ~isUploading
    /\ upl[u].pc = "idle"
    /\ RowsClaimed < MaxStoredRows
    /\ upl' = [upl EXCEPT ![u] =
                  [IdleUpload EXCEPT !.pc = "uploadImage", !.videoId = videoId,
                                     !.file = name, !.fileName = UploadFileName(now, name)]]
    /\ isUploading' = TRUE
    /\ UNCHANGED <<videoUrl, videoId, embedUrl, summaryData, req, world, imageTable,
                   imageLog, resolveInput, resolved, exportVars,
                   imageVars, uploads, auth>>

\* The user types the URL of a video and presses the button: handleUpload
\* runs to await storeImageReference(videoId, youtubeUrl).
UploadYoutube(u, url) ==
    /\ UploaderMounted
    /\ ~isUploading
    /\ upl[u].pc = "idle"
    /\ RowsClaimed < MaxStoredRows
    /\ Truthy(extractYouTubeVideoId(url))
    /\ upl' = [upl EXCEPT ![u] =
                  [IdleUpload EXCEPT !.pc = "storeRef", !.videoId = videoId,
                                     !.youtubeUrl = url, !.imagePath = url]]
    /\ isUploading' = TRUE
    /\ UNCHANGED <<videoUrl, videoId, embedUrl, summaryData, req, world, imageTable,
                   imageLog, resolveInput, resolved, exportVars,
                   imageVars, uploads, auth>>

\* finally { setIsUploading(false) }, of the instance that started the call.
UploadOver(u) ==
    /\ upl' = [upl EXCEPT ![u] = IdleUpload]
    /\ isUploading' = IF upl[u].orphan THEN isUploading ELSE FALSE

\* await uploadImage(file) settles: with the bucket/name token, and then
\* handleUpload goes on to store it, or with null.
UploadImageReturn(u) ==
    /\ upl[u].pc = "uploadImage"
    /\ \E ok \in BOOLEAN :
          IF ok
          THEN /\ upl' = [upl EXCEPT ![u].pc = "storeRef",
                                     ![u].imagePath = "video-images/" \o upl[u].fileName]
               /\ isUploading' = isUploading
          ELSE UploadOver(u)
    /\ UNCHANGED <<videoUrl, videoId, embedUrl, summaryData, req, world, imageTable,
                   imageLog, resolveInput, resolved, exportVars,
                   imageVars, uploads, auth>>

\* if (!success) throw new Error("Failed to store image reference")
\* Variant: the check left out.
StoreCheckSkipped(success) == TRUE
StoreSucceeded(success) == success.ok /\ success.value

\* await storeImageReference(videoId, imagePath) settles: true with the row
\* inserted, and then onSuccess(imagePath) is called; or false.
StoreReturn(u) ==
    /\ upl[u].pc = "storeRef"
    /\ \E answer \in TableAnswers :
          LET success == storeImageReference(answer)
              log == [imageLog EXCEPT !.store = [answer |-> answer, success |-> success]]
          IN  /\ imageTable' =
                    IF answer = "ok"
                    THEN Append(imageTable,
                                [video_id |-> upl[u].videoId, image_url |-> upl[u].imagePath])
                    ELSE imageTable
              /\ IF StoreSucceeded(success)
                 THEN /\ summaryData' = AppendImage(summaryData, upl[u].imagePath)
                      /\ imageLog' = IF summaryData.summary = absent THEN log
                                     ELSE [log EXCEPT !.uploaded = Append(@, upl[u].imagePath)]
                 ELSE /\ imageLog' = log
                      /\ UNCHANGED summaryData
    /\ UploadOver(u)
    /\ UNCHANGED <<videoUrl, videoId, embedUrl, req, world, resolveInput, resolved, exportVars,
                   imageVars, uploads, auth>>

(***************************************************************************)
(* generatePDF                                                             *)
(***************************************************************************)

\* new jsPDF(): an A4 page in millimetres; the layout numbers of generatePDF.
PageHeight == 297
LineHeight == 10
TopMargin == 20

\* The most lines doc.splitTextToSize(text, maxWidth) yields for one block,
\* and the most files one run downloads.
MaxLines == 44
MaxDownloads == 2

\* The cursor of generatePDF (yPosition, the page of doc) and what doc.text
\* has written: the section, the text, the page and y, and the lines.
PdfStart == [y |-> TopMargin, page |-> 1, writes |-> <<>>]

\* const checkPageBreak = (neededSpace: number) => ...
\* Variant: a check that never starts a page.
checkPageBreakNever(c, neededSpace) == c
checkPageBreak(c, neededSpace) ==
    IF c.y + neededSpace > PageHeight - 20
    THEN [c EXCEPT !.page = @ + 1, !.y = 20]
    ELSE c

\* doc.text(text, 15, yPosition)
DocText(c, section, text, lines) ==
    [c EXCEPT !.writes = Append(@, [section |-> section, text |-> text, page |-> c.page,
                                    y |-> c.y, lines |-> lines])]

\* yPosition += d
Down(c, d) == [c EXCEPT !.y = @ + d]

\* summary.text.split('\n\n'): the separators are the leftmost matches that
\* do not overlap, so in a run of newlines every second position from the
\* start of the run.
RECURSIVE PiecesFrom(_, _, _)
PiecesFrom(s, start, breaks) ==
    IF breaks = {} THEN <<From(s, start)>>
    ELSE LET b == Min(breaks)
         IN  <<(IF b > start THEN SubSeq(s, start, b - 1) ELSE "")>>
             \o PiecesFrom(s, b + 2, breaks \ {b})
SplitParagraphs(text) ==
    LET RunStart(i) ==
            Max({q \in 1..i : Ch(text, q - 1) # "\n" /\ \A k \in q..i : Ch(text, k) = "\n"})
        breaks == {i \in 1..(Len(text) - 1) :
                      /\ Ch(text, i) = "\n"
                      /\ Ch(text, i + 1) = "\n"
                      /\ (i - RunStart(i)) % 2 = 0}
    IN  PiecesFrom(text, 1, breaks)

\* codeSnippet.match(/```(\w+)/): the word after the first fence that has
\* one, or 'code'.
LanguageOf(codeSnippet) ==
    LET starts == {i \in 1..Len(codeSnippet) :
                      StartsAt(codeSnippet, i, Fence) /\ IsWord(Ch(codeSnippet, i + 3))}
    IN  IF starts = {} THEN "code"
        ELSE LET a == Min(starts) + 3
                 stops == {k \in a..Len(codeSnippet) : ~IsWord(Ch(codeSnippet, k))}
                 b == IF stops = {} THEN Len(codeSnippet) + 1 ELSE Min(stops)
             IN  SubSeq(codeSnippet, a, b - 1)

\* The title, the channel and duration, the rule, and the Summary heading.
RenderHeader(c, videoDetails) ==
    LET c1 == Down(DocText(c, "header", "Video Summary: " \o Tpl(videoDetails.title), 1),
                   (LineHeight * 3) \div 2)
        c2 == Down(DocText(c1, "header", "Channel: " \o Tpl(videoDetails.channel), 1),
                   LineHeight)
        c3 == Down(DocText(c2, "header", "Duration: " \o Tpl(videoDetails.duration), 1),
                   (LineHeight * 3) \div 2)
    IN  Down(c3, LineHeight)

\* for (const paragraph of paragraphs): each splits into n lines.
RECURSIVE RenderParagraphs(_, _, _)
RenderParagraphs(c, paragraphs, n) ==
    IF paragraphs = <<>> THEN c
    ELSE LET c1 == checkPageBreak(c, n * 6 + LineHeight)
             c2 == Down(DocText(c1, "summary", Head(paragraphs), n), n * 6 + LineHeight)
         IN  RenderParagraphs(c2, Tail(paragraphs), n)

RenderSummary(c, text, n) ==
    RenderParagraphs(Down(DocText(c, "summary", "Summary", 1), LineHeight),
                     SplitParagraphs(text), n)

\* for (const codeSnippet of summary.code): each cleaned snippet splits into
\* n lines.
RECURSIVE RenderSnippets(_, _, _)
RenderSnippets(c, code, n) ==
    IF code = <<>> THEN c
    ELSE LET c1 == checkPageBreak(c, n * 5 + LineHeight * 2)
             c2 == Down(DocText(c1, "code", "Language: " \o LanguageOf(Head(code)), 1),
                        LineHeight)
             c3 == Down(DocText(c2, "code", StripFences(Head(code)), n),
                        n * 5 + (LineHeight * 3) \div 2)
         IN  RenderSnippets(c3, Tail(code), n)

\* Variant: the heading of the code section written whether or not there is
\* a snippet.
RenderCodeHeadingAlways(c, code, n) ==
    LET c1 == Down(checkPageBreak(c, LineHeight * 2), LineHeight \div 2)
    IN  RenderSnippets(Down(DocText(c1, "code", "Code Snippets", 1), LineHeight), code, n)
RenderCode(c, code, n) ==
    IF Len(code) > 0
    THEN LET c1 == Down(checkPageBreak(c, LineHeight * 2), LineHeight \div 2)
         IN  RenderSnippets(Down(DocText(c1, "code", "Code Snippets", 1), LineHeight), code, n)
    ELSE c

\* for (const link of summary.links): each splits into n lines.
RECURSIVE RenderLinkList(_, _, _)
RenderLinkList(c, links, n) ==
    IF links = <<>> THEN c
    ELSE LET c1 == checkPageBreak(c, (LineHeight * 3) \div 2)
             c2 == Down(DocText(c1, "links", Head(links), n), n * 6 + 2)
         IN  RenderLinkList(c2, Tail(links), n)

RenderLinks(c, links, n) ==
    IF Len(links) > 0
    THEN LET c1 == checkPageBreak(c, LineHeight * 2)
         IN  RenderLinkList(Down(DocText(c1, "links", "Referenced Links", 1), LineHeight),
                            links, n)
    ELSE c

\* for (const image of summary.imageReferences); the bullet is written "* ".
RECURSIVE RenderImageList(_, _)
RenderImageList(c, images) ==
    IF images = <<>> THEN c
    ELSE LET c1 == checkPageBreak(c, LineHeight)
         IN  RenderImageList(Down(DocText(c1, "images", "* " \o Tpl(Head(images)), 1),
                                  LineHeight),
                             Tail(images))

RenderImages(c, images) ==
    IF Len(images) > 0
    THEN LET c1 == checkPageBreak(c, LineHeight * 2)
         IN  RenderImageList(Down(DocText(c1, "images", "Image References", 1), LineHeight),
                             images)
    ELSE c

\* How many lines splitTextToSize makes of a paragraph, a snippet, a link
\* (the links of generateSummary are short enough for one line).
Metrics ==
    LET LineCounts == {1, MaxLines \div 2, MaxLines}
    IN  [paragraph : LineCounts, code : LineCounts, link : {1}]

\* doc after every section was written, and doc.output('blob') of it.
RenderDocument(videoDetails, summary, metrics) ==
    RenderImages(
        RenderLinks(
            RenderCode(
                RenderSummary(RenderHeader(PdfStart, videoDetails), summary.text,
                              metrics.paragraph),
                summary.code, metrics.code),
            summary.links, metrics.link),
        summary.imageReferences)

OutputBlob(videoDetails, doc) ==
    [title |-> Tpl(videoDetails.title) \o " - Summary", pages |-> doc.page,
     writes |-> doc.writes]

\* The steps of generatePDF in which jsPDF may raise an error, and those a
\* call with this summary goes through.
RenderFaults ==
    {"none", "header", "summary", "code", "links", "images", "properties", "output"}
StepsOf(summary) ==
    {"header", "summary", "properties", "output"}
    \cup (IF Len(summary.code) > 0 THEN {"code"} ELSE {})
    \cup (IF Len(summary.links) > 0 THEN {"links"} ELSE {})
    \cup (IF Len(summary.imageReferences) > 0 THEN {"images"} ELSE {})

\* The error raised inside generatePDF when jsPDF fails in step fault, ""
\* when the call does not go through that step.
RaisedIn(summary, fault) == IF fault \in StepsOf(summary) THEN "jsPDF: " \o fault ELSE ""

\* catch (error) { console.error(...); throw new Error('Failed to generate PDF'); }
\* Variant: the catch rethrowing the error it caught.
RenderErrorRethrown(error) == Thrown(error)
OnRenderError(error) == Thrown("Failed to generate PDF")

\* What await generatePDF(videoDetails, summary) settles to.
generatePDF(videoDetails, summary, metrics, fault) ==
    IF RaisedIn(summary, fault) # ""
    THEN OnRenderError(RaisedIn(summary, fault))
    ELSE Returned(OutputBlob(videoDetails, RenderDocument(videoDetails, summary, metrics)))

(***************************************************************************)
(* PDFExport.handleExport                                                  *)
(***************************************************************************)

IdleExport ==
    [pc |-> "idle", videoDetails |-> absent, summary |-> absent, raised |-> "",
     result |-> absent, outcome |-> "none"]

\* The Download button is rendered: isLoading ? ... : videoDetails && summary ? ...
ExportShown ==
    /\ ~summaryData.isLoading
    /\ summaryData.videoDetails # absent
    /\ summaryData.summary # absent

\* title.replace(/[^a-z0-9]/gi, '_').toLowerCase()
RECURSIVE CleanTitle(_, _)
CleanTitle(title, i) ==
    LET LowerCase(c) ==
            CASE c = "A" -> "a" [] c = "B" -> "b" [] c = "C" -> "c" [] c = "D" -> "d"
              [] c = "E" -> "e" [] c = "F" -> "f" [] c = "G" -> "g" [] c = "H" -> "h"
              [] c = "I" -> "i" [] c = "J" -> "j" [] c = "K" -> "k" [] c = "L" -> "l"
              [] c = "M" -> "m" [] c = "N" -> "n" [] c = "O" -> "o" [] c = "P" -> "p"
              [] c = "Q" -> "q" [] c = "R" -> "r" [] c = "S" -> "s" [] c = "T" -> "t"
              [] c = "U" -> "u" [] c = "V" -> "v" [] c = "W" -> "w" [] c = "X" -> "x"
              [] c = "Y" -> "y" [] c = "Z" -> "z" [] OTHER -> c
    IN  IF i > Len(title) THEN ""
        ELSE (IF Ch(title, i) \in Letters \cup Digits THEN LowerCase(Ch(title, i)) ELSE "_")
             \o CleanTitle(title, i + 1)

\* link.download; reading .replace of an undefined title throws.
DownloadName(title) ==
    IF title \in {undefined, null} THEN Thrown("TypeError")
    ELSE Returned(CleanTitle(title, 1) \o "_summary.pdf")

\* finally { setIsGenerating(false) }: isGenerating once handleExport is over.
\* Variant: the flag cleared at the end of the try block only.
GeneratingClearedInTry(result, name) == ~(result.ok /\ name.ok)
GeneratingAfterExport(result, name) == FALSE

\* The user presses Download: handleExport sets isGenerating and calls
\* generatePDF, which runs to its end before handleExport awaits it.
ExportClick(metrics, fault) ==
    /\ ExportShown
    /\ ~isGenerating
    /\ exp.pc = "idle"
    /\ Len(downloads) < MaxDownloads
    /\ isGenerating' = TRUE
    /\ exp' = [pc |-> "awaitPdf",
               videoDetails |-> summaryData.videoDetails,
               summary |-> summaryData.summary,
               raised |-> RaisedIn(summaryData.summary, fault),
               result |-> generatePDF(summaryData.videoDetails, summaryData.summary,
                                      metrics, fault),
               outcome |-> "none"]
    /\ UNCHANGED <<videoUrl, videoId, embedUrl, summaryData, req, world, imageTable, upl,
                   isUploading, imageLog, resolveInput, resolved, downloads, imageVars, uploads, auth>>

\* await generatePDF settles: the blob is handed to the browser through a
\* link, or the failure toast is shown; finally { setIsGenerating(false) }.
ExportReturn ==
    /\ exp.pc = "awaitPdf"
    /\ LET name == DownloadName(exp.videoDetails.title)
       IN  IF exp.result.ok /\ name.ok
           THEN /\ downloads' = Append(downloads,
                                       [download |-> name.value,
                                        pages |-> exp.result.value.pages])
                /\ exp' = [IdleExport EXCEPT !.outcome = "downloaded"]
           ELSE /\ downloads' = downloads
                /\ exp' = [IdleExport EXCEPT
                              !.outcome = IF exp.result.ok THEN "linkFailed" ELSE "pdfFailed"]
    /\ isGenerating' = GeneratingAfterExport(exp.result, DownloadName(exp.videoDetails.title))
    /\ UNCHANGED <<videoUrl, videoId, embedUrl, summaryData, req, world, imageTable, upl,
                   isUploading, imageLog, resolveInput, resolved, imageVars, uploads, auth>>

(***************************************************************************)
(* Image resolution: supabaseService and SummarySection.loadImageUrls      *)
(***************************************************************************)

\* export function getYouTubeThumbnailUrl(videoIdOrUrl: string): string
getYouTubeThumbnailUrl(videoIdOrUrl) ==
    LET Thumbnail(id) ==
            IF ~Truthy(id) THEN "https://placehold.co/600x400?text=Invalid+YouTube+URL"
            ELSE "https://img.youtube.com/vi/" \o id \o "/hqdefault.jpg"
    IN  IF ~Truthy(videoIdOrUrl) THEN "https://placehold.co/600x400?text=Invalid+YouTube+URL"
        ELSE Thumbnail(IF Len(videoIdOrUrl) = 11 THEN videoIdOrUrl
                       ELSE extractYouTubeVideoId(videoIdOrUrl))

\* imagePath.split('/'): parts[0] and parts.slice(1).join('/'), with the
\* bucket 'video-images' for a path without a slash.
BucketAndPath(imagePath) ==
    LET slashes == {i \in 1..Len(imagePath) : Ch(imagePath, i) = "/"}
    IN  IF slashes = {} THEN [bucket |-> "video-images", path |-> imagePath]
        ELSE [bucket |-> SubSeq(imagePath, 1, Min(slashes) - 1),
              path |-> From(imagePath, Min(slashes) + 1)]

\* supabase.storage.from(bucket).createSignedUrl(path, expiresIn) and
\* .getPublicUrl(path): the URL the storage collaborator answers with.
StorageUrl(access, at) ==
    "https://project.supabase.co/storage/v1/object/" \o access \o "/" \o at.bucket
        \o "/" \o at.path

\* The checks before storage is asked: a full URL, then a YouTube id or URL.
ReachesStorage(imagePath) ==
    /\ ~StartsAt(imagePath, 1, "http")
    /\ ~Truthy(extractYouTubeVideoId(imagePath))

\* The try block of getSignedImageUrl.
SignedAttempt(imagePath, storage) ==
    IF StartsAt(imagePath, 1, "http") THEN Returned(imagePath)
    ELSE IF Truthy(extractYouTubeVideoId(imagePath))
    THEN Returned(getYouTubeThumbnailUrl(imagePath))
    ELSE IF storage.signed = "ok"
    THEN Returned(StorageUrl("sign", BucketAndPath(imagePath)))
    ELSE Thrown("createSignedUrl: " \o storage.signed)

\* The fallback of its catch block.
PublicFallback(imagePath, storage) ==
    IF storage.public = "ok" THEN Returned(StorageUrl("public", BucketAndPath(imagePath)))
    ELSE Thrown("getPublicUrl: " \o storage.public)

\* export async function getSignedImageUrl(imagePath, expiresIn)
\* Variant: the fallback without its own try and catch.
getSignedImageUrlOpenFallback(imagePath, storage) ==
    LET Settled(attempt, fallback) == IF attempt.ok THEN attempt ELSE fallback
    IN  Settled(SignedAttempt(imagePath, storage), PublicFallback(imagePath, storage))
getSignedImageUrl(imagePath, storage) ==
    LET Settled(attempt, fallback) ==
            IF attempt.ok THEN attempt
            ELSE IF fallback.ok THEN fallback
            ELSE Returned(null)
    IN  Settled(SignedAttempt(imagePath, storage), PublicFallback(imagePath, storage))

\* export async function getImageUrl(imagePath)
getImageUrl(imagePath, storage) ==
    LET Settled(at, signedUrl) ==
            IF ~signedUrl.ok
            THEN Returned("https://placehold.co/600x400?text=Image+Not+Available")
            ELSE IF Truthy(signedUrl.value) THEN signedUrl
            ELSE IF storage.public = "ok" THEN Returned(StorageUrl("public", at))
            ELSE Returned("https://placehold.co/600x400?text=Image+Not+Available")
        Signed(at) == Settled(at, getSignedImageUrl(at.bucket \o "/" \o at.path, storage))
    IN  IF StartsAt(imagePath, 1, "http") THEN Returned(imagePath)
        ELSE IF Truthy(extractYouTubeVideoId(imagePath))
        THEN Returned(getYouTubeThumbnailUrl(imagePath))
        ELSE Signed(BucketAndPath(imagePath))

\* loadImageUrls of SummarySection for one image path: urlMap[imagePath],
\* undefined when the path is marked in errorsMap instead.
LoadedUrl(imagePath, storage) ==
    LET Shown(id, url) ==
            IF Truthy(id) THEN getYouTubeThumbnailUrl(id)
            ELSE IF url.ok /\ Truthy(url.value) THEN url.value
            ELSE undefined
    IN  Shown(extractYouTubeVideoId(imagePath), getSignedImageUrl(imagePath, storage))

\* The tokens of an image reference: paths in storage, full URLs, and
\* YouTube ids and URLs; and what the storage collaborator does when asked.
ImageTokens ==
    {[kind |-> "storage", id |-> "", bucket |-> "video-images",
      path |-> "1700000000000_cat.png", token |-> "video-images/1700000000000_cat.png"],
     [kind |-> "storage", id |-> "", bucket |-> "video-images", path |-> "cat.png",
      token |-> "cat.png"],
     [kind |-> "storage", id |-> "", bucket |-> "archive", path |-> "2024/cat.png",
      token |-> "archive/2024/cat.png"],
     [kind |-> "url", id |-> "", bucket |-> "", path |-> "",
      token |-> "https://cdn.example.com/cat.png"],
     [kind |-> "url", id |-> "", bucket |-> "", path |-> "",
      token |-> "https://img.youtube.com/vi/dQw4w9WgXcQ/maxresdefault.jpg"],
     [kind |-> "youtube", id |-> "dQw4w9WgXcQ", bucket |-> "", path |-> "",
      token |-> "dQw4w9WgXcQ"],
     [kind |-> "youtube", id |-> "dQw4w9WgXcQ", bucket |-> "", path |-> "",
      token |-> "youtu.be/dQw4w9WgXcQ"],
     [kind |-> "youtube", id |-> "a-b_c-d_e-f", bucket |-> "", path |-> "",
      token |-> "https://youtu.be/a-b_c-d_e-f"],
     [kind |-> "youtube", id |-> "dQw4w9WgXcQ", bucket |-> "", path |-> "",
      token |-> "https://www.youtube.com/watch?v=dQw4w9WgXcQ"]}
ImageInputs ==
    {[kind |-> t.kind, id |-> t.id, bucket |-> t.bucket, path |-> t.path,
      token |-> t.token, signed |-> s, public |-> p] :
        t \in ImageTokens, s \in {"ok", "error", "throws"}, p \in {"ok", "throws"}}

\* A caller hands imageInput.token to each image-resolution function.
ResolveImage ==
    /\ ~imageResolved.done
    /\ imageInput # NoToken
    /\ imageResolved' =
          [done |-> TRUE,
           signedUrl |-> getSignedImageUrl(imageInput.token, imageInput),
           imageUrl |-> getImageUrl(imageInput.token, imageInput),
           shown |-> LoadedUrl(imageInput.token, imageInput),
           asked |-> ReachesStorage(imageInput.token)]
    /\ UNCHANGED <<pageVars, resolveInput, resolved, imageInput, uploads, auth>>

(***************************************************************************)
(* The resolvers on their own                                              *)
(***************************************************************************)

\* The shapes of a URL that carries the id, and strings that carry none.
ShapePrefix(shape) ==
    CASE shape = "short" -> "https://youtu.be/"
      [] shape = "v" -> "https://www.youtube.com/v/"
      [] shape = "u" -> "https://www.youtube.com/user/demo#p/u/1/"
      [] shape = "embed" -> "https://www.youtube.com/embed/"
      [] shape = "watch" -> "https://www.youtube.com/watch?v="
      [] shape = "watchLater" -> "https://www.youtube.com/watch?feature=share&v="
      [] shape = "bare" -> ""
      [] shape = "other" -> "https://example.com/clip/"
ValidShapes == {"short", "v", "u", "embed", "watch", "watchLater", "bare"}
ResolverIds ==
    {"dQw4w9WgXcQ", "a-b_c-d_e-f", "vQw4w9WgXcQ", "dQw4w9WgXc", "dQw4w9WgXcQQ", ""}
ResolverSuffixes == {"", "&t=10", "#t=10", "?t=10"}
ResolverInputs ==
    {[shape |-> sh, id |-> id, url |-> ShapePrefix(sh) \o id \o su] :
        sh \in ValidShapes \cup {"other"}, id \in ResolverIds,
        su \in ResolverSuffixes}

\* A caller hands resolveInput.url to each resolver.
Resolve ==
    /\ ~resolved.done
    /\ resolveInput # NoInput
    /\ resolved' =
          [done |-> TRUE,
           videoID |-> extractVideoID(resolveInput.url),
           youTubeVideoId |-> extractYouTubeVideoId(resolveInput.url),
           pageVideoId |-> extractVideoId(resolveInput.url),
           embedUrl |-> getEmbedUrl(resolveInput.url)]
    /\ UNCHANGED <<pageVars, resolveInput, imageVars, uploads, auth>>

(***************************************************************************)
(* AuthProvider, ProtectedRoute and the sign-out of the Navbar             *)
(***************************************************************************)

\* Who may hold a session with the identity provider, and how it answers.
Accounts == {"ada@example.com", "bob@example.com"}
AuthAnswers == {"ok", "error"}

\* !!user, for a state of type boolean | null.
Bool(b) == IF b THEN "true" ELSE "false"

\* ProtectedRoute: useState<boolean | null>(null), and checkAuth() started
\* by the effect of its mount.
NoRoute == [mounted |-> FALSE, isAuthenticated |-> null, pc |-> "idle"]
MountedRoute == [mounted |-> TRUE, isAuthenticated |-> null, pc |-> "getCurrentUser"]

\* AuthProvider: useState of user, loading and error, before checkUser has
\* settled; session is the user the identity provider knows for this browser.
AppStart(session) ==
    [session |-> session, user |-> null, loading |-> TRUE, error |-> null,
     route |-> NoRoute, signIn |-> "idle", signUp |-> "idle", signOut |-> "idle"]

\* The application with a user signed in and the protected page on display.
SignedIn ==
    auth = [session |-> "ada@example.com", user |-> "ada@example.com", loading |-> FALSE,
            error |-> null,
            route |-> [mounted |-> TRUE, isAuthenticated |-> "true", pc |-> "idle"],
            signIn |-> "idle", signUp |-> "idle", signOut |-> "idle"]

\* export async function getCurrentUser(): it catches what getUser raises.
getCurrentUser(session, answer) ==
    IF answer = "ok" THEN [user |-> session, error |-> null]
    ELSE [user |-> null, error |-> "AuthError"]

\* What ProtectedRoute returns.
ProtectedRouteRender(route) ==
    IF ~route.mounted THEN "nothing"
    ELSE IF route.isAuthenticated = null THEN "spinner"
    ELSE IF route.isAuthenticated = "false" THEN "redirect"
    ELSE "children"

AuthUnchanged == UNCHANGED <<pageVars, resolveInput, resolved, imageVars, uploads>>

\* await getCurrentUser() settles in checkUser of AuthProvider.
checkUserReturn ==
    /\ auth.loading
    /\ \E answer \in AuthAnswers :
          LET res == getCurrentUser(auth.session, answer)
          IN  auth' = IF res.error # null
                      THEN [auth EXCEPT !.error = res.error, !.loading = FALSE]
                      ELSE [auth EXCEPT !.user = res.user, !.loading = FALSE]
    /\ AuthUnchanged

\* The user opens a page wrapped in ProtectedRoute: it mounts, and its
\* effect calls checkAuth, which runs to await getCurrentUser().
MountProtectedRoute ==
    /\ ~auth.loading
    /\ ~auth.route.mounted
    /\ auth' = [auth EXCEPT !.route = MountedRoute]
    /\ AuthUnchanged

\* await getCurrentUser() settles in checkAuth: setIsAuthenticated(!!user);
\* on false the render is <Navigate to="/login" />, which leaves the page.
checkAuthReturn ==
    /\ auth.route.pc = "getCurrentUser"
    /\ \E answer \in AuthAnswers :
          LET res == getCurrentUser(auth.session, answer)
              route == [auth.route EXCEPT !.isAuthenticated = Bool(res.user # null),
                                          !.pc = "idle"]
          IN  auth' = [auth EXCEPT !.route =
                          IF ProtectedRouteRender(route) = "redirect" THEN NoRoute ELSE route]
    /\ AuthUnchanged

\* handleSignIn(email, password) is called on the login page and runs to
\* await signIn(...).
handleSignIn ==
    /\ ~auth.loading
    /\ ~auth.route.mounted
    /\ auth.signIn = "idle"
    /\ auth' = [auth EXCEPT !.error = null, !.signIn = "signIn"]
    /\ AuthUnchanged

\* await signIn(...) settles.
signInReturn ==
    /\ auth.signIn = "signIn"
    /\ \E answer \in AuthAnswers, account \in Accounts :
          auth' = IF answer = "ok"
                  THEN [auth EXCEPT !.session = account, !.user = account, !.signIn = "idle"]
                  ELSE [auth EXCEPT !.error = "AuthError", !.signIn = "idle"]
    /\ AuthUnchanged

\* handleSignUp(email, password) is called and runs to await signUp(...).
handleSignUp ==
    /\ ~auth.loading
    /\ ~auth.route.mounted
    /\ auth.signUp = "idle"
    /\ auth' = [auth EXCEPT !.error = null, !.signUp = "signUp"]
    /\ AuthUnchanged

\* await signUp(...) settles: setUser(user) with the user created; the
\* identity provider opens a session at once only when it asks for no
\* confirmation of the address.
signUpReturn ==
    /\ auth.signUp = "signUp"
    /\ \E answer \in AuthAnswers, account \in Accounts, confirmed \in BOOLEAN :
          auth' = IF answer = "ok"
                  THEN [auth EXCEPT !.session = IF confirmed THEN account ELSE @,
                                    !.user = account, !.signUp = "idle"]
                  ELSE [auth EXCEPT !.error = "AuthError", !.signUp = "idle"]
    /\ AuthUnchanged

\* The user follows a link of the Navbar to a page that is not protected:
\* the ProtectedRoute unmounts, and what its checkAuth sets later is dropped.
LeaveProtectedRoute ==
    /\ auth.route.mounted
    /\ auth' = [auth EXCEPT !.route = NoRoute]
    /\ AuthUnchanged

\* The Sign out button of the Navbar, shown while isAuthenticated of the
\* context: handleSignOut runs to await signOut().
handleSignOut ==
    /\ ~auth.loading
    /\ auth.user # null
    /\ auth.signOut = "idle"
    /\ auth' = [auth EXCEPT !.error = null, !.signOut = "signOut"]
    /\ AuthUnchanged

\* await signOut() settles: setUser(null), or the error is kept and thrown.
signOutReturn ==
    /\ auth.signOut = "signOut"
    /\ \E answer \in AuthAnswers :
          auth' = IF answer = "ok"
                  THEN [auth EXCEPT !.session = null, !.user = null, !.signOut = "idle"]
                  ELSE [auth EXCEPT !.error = "AuthError", !.signOut = "idle"]
    /\ AuthUnchanged

(***************************************************************************)
(* Specifications                                                          *)
(***************************************************************************)

PageStart(worlds) ==
    /\ videoUrl = ""
    /\ videoId = ""
    /\ embedUrl = ""
    /\ summaryData =
          [videoDetails |-> absent, summary |-> absent, isLoading |-> FALSE,
           error |-> undefined]
    /\ req = [r \in ReqIds |-> IdleFrame]
    /\ world \in worlds
    /\ imageTable = <<>>
    /\ upl = [u \in UploadIds |-> IdleUpload]
    /\ isUploading = FALSE
    /\ imageLog = EmptyLog
    /\ isGenerating = FALSE
    /\ exp = IdleExport
    /\ downloads = <<>>
    /\ uploads = <<>>

\* The awaits of a request settle.
Settle ==
    \/ \E r \in ReqIds : DetailsReturn(r)
    \/ \E r \in ReqIds : GenDetailsReturn(r)
    \/ \E r \in ReqIds : FetchCaptionsReturn(r)
    \/ \E r \in ReqIds : ProcessTranscriptReturn(r)
    \/ \E r \in ReqIds : ImageReferencesReturn(r)

Analyse ==
    \/ \E r \in ReqIds, url \in TypedUrls : Submit(r, url)
    \/ Settle

Upload ==
    \/ \E u \in UploadIds, name \in UploadFiles, now \in ClockReadings : UploadFile(u, name, now)
    \/ \E u \in UploadIds, url \in UploadYoutubeUrls : UploadYoutube(u, url)
    \/ \E u \in UploadIds : UploadImageReturn(u)
    \/ \E u \in UploadIds : StoreReturn(u)

\* The page: analyses and uploads, in an environment of PageWorlds.
Init == SignedIn /\ PageStart(PageWorlds) /\ NothingToResolve
Next == Analyse \/ Upload
Spec == Init /\ [][Next]_vars

\* The analysis alone, over every transcript within the bounds.
InitSummary == SignedIn /\ PageStart(WideWorlds) /\ NothingToResolve
NextSummary == Analyse
SpecSummary == InitSummary /\ [][NextSummary]_vars

\* The resolvers alone, on every input of ResolverInputs.
InitResolver ==
    /\ SignedIn
    /\ PageStart({[apiKey |-> FALSE, oembed |-> OEmbedFull, transcript |-> EmptyTranscript]})
    /\ resolveInput \in ResolverInputs
    /\ resolved = NotResolved
    /\ imageInput = NoToken
    /\ imageResolved = NotLoaded
NextResolver == Resolve
SpecResolver == InitResolver /\ [][NextResolver]_vars

\* The page with the export: a transcript of two paragraphs and two fenced
\* snippets, one without a transcript, and one whose metadata has no title.
\* The continuation of handleExport runs before any other handler does.
LongTranscript ==
    [summary |-> "Part one.\n\nPart two.",
     keyPoints |-> <<>>,
     codeBlocks |-> <<[timestamp |-> 0, text |-> Fence \o "js\nx = 1\n" \o Fence, type |-> "code"],
                     [timestamp |-> 1, text |-> "x = 1", type |-> "code"]>>]
ExportWorlds ==
    {[apiKey |-> TRUE, oembed |-> OEmbedFull, transcript |-> LongTranscript],
     [apiKey |-> FALSE, oembed |-> OEmbedFull, transcript |-> EmptyTranscript],
     [apiKey |-> FALSE, oembed |-> OEmbedBare, transcript |-> EmptyTranscript]}
InitExport == SignedIn /\ PageStart(ExportWorlds) /\ NothingToResolve
NextExport ==
    \/ exp.pc = "idle" /\ Analyse
    \/ \E metrics \in Metrics, fault \in RenderFaults : ExportClick(metrics, fault)
    \/ ExportReturn
SpecExport == InitExport /\ [][NextExport]_vars

\* The analyses of the page when every collaborator call that handleSubmit
\* awaits returns or throws: a continuation that can run does run.
InitLive == SignedIn /\ PageStart(PageWorlds \cup ExportWorlds) /\ NothingToResolve
SpecLive == InitLive /\ [][Analyse]_vars /\ WF_vars(Settle)

\* The application from its load, with or without a session kept from an
\* earlier visit: AuthProvider, the protected page, sign-in and sign-out.
InitAuth ==
    /\ auth \in {AppStart(session) : session \in {null} \cup Accounts}
    /\ PageStart({[apiKey |-> FALSE, oembed |-> OEmbedFull, transcript |-> EmptyTranscript]})
    /\ NothingToResolve
NextAuth ==
    \/ checkUserReturn
    \/ MountProtectedRoute
    \/ checkAuthReturn
    \/ handleSignIn
    \/ signInReturn
    \/ handleSignUp
    \/ signUpReturn
    \/ handleSignOut
    \/ signOutReturn
    \/ LeaveProtectedRoute
SpecAuth == InitAuth /\ [][NextAuth]_vars

\* Index on its own: handleSubmit is called twice by a caller that does not
\* wait, as no form disabled while loading stands before it.
NextOverlap ==
    \/ \E r \in ReqIds, url \in TypedUrls : req[r].pc = "idle" /\ handleSubmit(r, url)
    \/ Settle
SpecOverlap == Init /\ [][NextOverlap]_vars

\* uploadImage on its own: this session and another one upload files, with
\* names that differ, that differ in their spaces only, or that are the
\* same, at the same reading of the clock or a millisecond later.
InitUploads ==
    /\ SignedIn
    /\ PageStart({[apiKey |-> FALSE, oembed |-> OEmbedFull, transcript |-> EmptyTranscript]})
    /\ NothingToResolve
NextUploads ==
    \E session \in {"this", "other"},
       name \in UploadFiles \cup {"my  chart.png", "cat.png"},
       now \in ClockReadings \cup {"1700000000001"} :
        UploadImageCall(session, name, now)
SpecUploads == InitUploads /\ [][NextUploads]_vars

\* The image-resolution functions on their own: one token is handed to
\* them, with storage answering or failing.
InitImages ==
    /\ SignedIn
    /\ PageStart({[apiKey |-> FALSE, oembed |-> OEmbedFull, transcript |-> EmptyTranscript]})
    /\ resolveInput = NoInput
    /\ resolved = NotResolved
    /\ imageInput \in ImageInputs
    /\ imageResolved = NotLoaded
NextImages == ResolveImage
SpecImages == InitImages /\ [][NextImages]_vars

(***************************************************************************)
(* Properties of the page                                                  *)
(***************************************************************************)

\* The thumbnail URL of the video the page shows.
ThumbnailOf(id) == "https://img.youtube.com/vi/" \o id \o "/maxresdefault.jpg"

\* The request failed to resolve a video id: in getVideoDetails or in Index.
ResolutionFailed(r) ==
    /\ req[r].pc # "idle"
    /\ ~Truthy(extractVideoID(req[r].url)) \/ ~Truthy(extractVideoId(req[r].url))

\* C1: isLoading is true exactly from the submission of a request until its
\* success or its error is recorded, and whenever isLoading is false, error
\* and summary are not both set.
LoadingExactlyWhileInFlight ==
    /\ summaryData.isLoading <=> (\E r \in ReqIds : InFlight(r))
    /\ ~summaryData.isLoading =>
          ~(summaryData.error # undefined /\ summaryData.summary # absent)

\* A request ended in success and an uploaded image was appended since.
SuccessThenUploadSeen ==
    /\ \E r \in ReqIds : req[r].outcome = "success"
    /\ ~summaryData.isLoading
    /\ summaryData.summary # absent
    /\ imageLog.uploaded # <<>>

\* C2: when the metadata fetch of getVideoDetails fails (the endpoint is
\* unavailable or its body is malformed), the request ends in the error:
\* SummaryData has that error, isLoading false and no summary.
MetadataFailureIsTerminalError ==
    \A r \in ReqIds : req[r].fetchError # "" =>
        /\ req[r].pc = "done"
        /\ summaryData.error = req[r].fetchError
        /\ ~summaryData.isLoading
        /\ summaryData.summary = absent

\* The metadata fetch failed in handleSubmit's own call, and in another run
\* in the call generateSummary makes after the details were stored.
MetadataFailureSeen ==
    \E r \in ReqIds :
        /\ req[r].fetchError \in FetchErrors
        /\ req[r].outcome \in {"metadataError", "summaryMetadataError"}
        /\ summaryData.error = req[r].fetchError

\* C3: when the video id of a submitted URL cannot be resolved, SummaryData
\* holds neither videoDetails nor summary during or after the request, and
\* neither generateSummary nor getImageReferences is called.
ResolutionFailureLeavesNothing ==
    \A r \in ReqIds : ResolutionFailed(r) =>
        /\ summaryData.videoDetails = absent
        /\ summaryData.summary = absent
        /\ req[r].pc \in {"getDetails", "done"}
        /\ req[r].videoUrl = ""
        /\ req[r].summary = absent
        /\ req[r].pc = "done" =>
              /\ req[r].outcome \in {"invalidUrl", "noVideoId", "metadataError"}
              /\ summaryData.error \in
                    {"Invalid YouTube URL", "Could not extract video ID"} \cup FetchErrors
              /\ ~summaryData.isLoading

\* The metadata arrived for a URL whose id Index could not extract.
NoVideoIdSeen ==
    \E r \in ReqIds :
        /\ ResolutionFailed(r)
        /\ req[r].outcome = "noVideoId"
        /\ summaryData.error = "Could not extract video ID"

\* C8: once a request has succeeded, summary.imageReferences is the
\* thumbnail URL of the video, then the stored references in the order
\* getImageReferences returned them, then the uploaded references in the
\* order their success events arrived.
ImageReferencesInOrder ==
    summaryData.summary # absent =>
        summaryData.summary.imageReferences =
            <<ThumbnailOf(videoId)>> \o imageLog.stored \o imageLog.uploaded

\* A summary that shows stored references and references uploaded since.
StoredAndUploadedSeen ==
    /\ summaryData.summary # absent
    /\ imageLog.stored # <<>>
    /\ imageLog.uploaded # <<>>
    /\ Len(summaryData.summary.imageReferences) >= 3

(***************************************************************************)
(* Properties of generateSummary                                           *)
(***************************************************************************)

\* The requests for which generateSummary has returned a SummaryContent.
Summarised == {r \in ReqIds : req[r].summary # absent}

\* The requests whose caption fetch or transcript processing failed.
CaptionsFailed == {r \in ReqIds : req[r].captions \in {"fetchFailed", "processFailed"}}

\* The fallback text, from the metadata of the run.
FallbackOfRun ==
    "This video titled \"" \o Tpl(world.oembed.title) \o "\" by "
    \o Tpl(world.oembed.author_name)
    \o " provides a comprehensive overview of the topic.\n      \n"
    \o "The content is structured to help viewers understand the subject matter through clear explanations and examples. "
    \o "The presenter breaks down complex concepts into digestible segments, making it easier for the audience to follow along."

IsNonDecreasing(items) ==
    \A i \in 1..(Len(items) - 1) : items[i].timestamp <= items[i + 1].timestamp

Elements(items) == {items[i] : i \in 1..Len(items)}

KeyPointsAmongTimestamps ==
    \A r \in Summarised :
        Elements(req[r].summary.keyPoints) \subseteq Elements(req[r].summary.timestamps)

\* A summary with two key points and a code block.
KeyPointsSeen ==
    \E r \in Summarised :
        /\ Len(req[r].summary.keyPoints) >= 2
        /\ Len(req[r].summary.timestamps) > Len(req[r].summary.keyPoints)

\* C6: the timestamps sequence generateSummary assembles from the keyPoints
\* and codeBlocks of processTranscript is non-decreasing in timestamp.
TimestampsNonDecreasing ==
    \A r \in Summarised :
        /\ IsNonDecreasing(req[r].summary.timestamps)
        /\ req[r].captions = "processed" =>
              Len(req[r].summary.timestamps) =
                  Len(world.transcript.keyPoints) + Len(world.transcript.codeBlocks)

\* Timestamps assembled from a transcript that is not in timestamp order.
UnorderedTranscriptSeen ==
    \E r \in Summarised :
        /\ req[r].captions = "processed"
        /\ ~IsNonDecreasing(world.transcript.keyPoints \o world.transcript.codeBlocks)
        /\ Len(req[r].summary.timestamps) >= 3

TextNeverEmpty ==
    \A r \in Summarised :
        /\ req[r].summary.text # ""
        /\ req[r].summary.text =
              IF req[r].captions = "processed" /\ world.transcript.summary # ""
              THEN world.transcript.summary
              ELSE FallbackOfRun

\* A processed transcript whose summary is the empty string.
EmptyTranscriptSummarySeen ==
    \E r \in Summarised :
        /\ req[r].captions = "processed"
        /\ world.transcript.summary = ""
        /\ req[r].summary.transcriptSummary = ""
        /\ req[r].summary.text = FallbackOfRun

\* C20: the links of every SummaryContent that generateSummary returns begin
\* with the canonical watch URL https://www.youtube.com/watch?v=<videoId> of
\* the requested video, followed by the channel reference, in that order,
\* whether the captions were processed, failed or were not read.
LinksAreWatchUrlThenChannel ==
    \A r \in Summarised :
        /\ Len(req[r].summary.links) = 2
        /\ req[r].summary.links[1] =
              "https://www.youtube.com/watch?v=" \o req[r].extractedVideoId
        /\ req[r].summary.links[2] =
              "https://www.youtube.com/channel/" \o Tpl(world.oembed.author_name)

\* A summary built after the captions failed, with its two links.
LinksAfterCaptionFailureSeen ==
    \E r \in Summarised \cap CaptionsFailed :
        /\ req[r].captions = "fetchFailed"
        /\ req[r].summary.links =
              <<"https://www.youtube.com/watch?v=a-b_c-d_e-f",
                "https://www.youtube.com/channel/Rick Astley">>

(***************************************************************************)
(* Properties of the resolvers                                             *)
(***************************************************************************)

\* C10: for a URL of a valid shape around an 11-character id, extractVideoID
\* and extractYouTubeVideoId both return that id; for every other string
\* both return null.
ResolversReturnTheId ==
    resolved.done =>
        IF resolveInput.shape \in ValidShapes /\ Len(resolveInput.id) = 11
        THEN resolved.videoID = resolveInput.id /\ resolved.youTubeVideoId = resolveInput.id
        ELSE resolved.videoID = null /\ resolved.youTubeVideoId = null

\* C11: getEmbedUrl(url) is https://www.youtube.com/embed/ followed by the id
\* extractVideoID returns for url when that is not null, and the empty
\* string exactly when extractVideoID returns null.
EmbedUrlComposesResolver ==
    resolved.done =>
        /\ resolved.videoID # null =>
              resolved.embedUrl = "https://www.youtube.com/embed/" \o resolved.videoID
        /\ resolved.embedUrl = "" <=> resolved.videoID = null

\* An embed URL built from a resolved id, for a URL that carries more than
\* the id.
EmbedUrlSeen ==
    /\ resolved.done
    /\ resolved.videoID = "a-b_c-d_e-f"
    /\ resolveInput.url = "https://www.youtube.com/embed/a-b_c-d_e-f?t=10"
    /\ resolved.embedUrl = "https://www.youtube.com/embed/a-b_c-d_e-f"

(***************************************************************************)
(* Properties of the export                                                *)
(***************************************************************************)

\* C12: generatePDF is all-or-nothing.  When a step of the rendering raises
\* an error the promise rejects with the one error 'Failed to generate PDF'
\* and carries no Blob, and the error raised inside does not escape; when no
\* step raises it resolves with one Blob.
PdfAllOrNothing ==
    exp.pc = "awaitPdf" =>
        IF exp.raised # ""
        THEN /\ ~exp.result.ok
             /\ exp.result.message = "Failed to generate PDF"
             /\ exp.result.message # exp.raised
             /\ exp.result.value = absent
        ELSE /\ exp.result.ok
             /\ exp.result.value # absent
             /\ exp.result.value.pages >= 1
             /\ Len(exp.result.value.writes) > 0

\* jsPDF failed while the code snippets were written, after the header and
\* the summary text had been.
RenderFaultSeen ==
    /\ exp.pc = "awaitPdf"
    /\ exp.raised = "jsPDF: code"
    /\ Len(exp.summary.code) > 0
    /\ ~exp.result.ok

\* C13: a failed export affects the export only.  When generatePDF rejects
\* inside handleExport, the videoDetails and summary of the view-model are
\* unchanged, no download is triggered, and isGenerating is false again, so
\* that the Download button can be pressed once more.
FailedExportTouchesExportOnly ==
    [][(exp.pc = "awaitPdf" /\ ~exp.result.ok /\ exp'.pc = "idle") =>
          /\ summaryData' = summaryData
          /\ downloads' = downloads
          /\ exp'.outcome = "pdfFailed"
          /\ isGenerating' = FALSE
          /\ ExportShown']_vars

\* The failure toast of an export was shown, and the page still holds the
\* summary and offers the Download button.
FailedExportSeen ==
    /\ exp.pc = "idle"
    /\ exp.outcome = "pdfFailed"
    /\ ~isGenerating
    /\ ExportShown
    /\ downloads = <<>>

(***************************************************************************)
(* Properties of the image references                                      *)
(***************************************************************************)

\* C16: a failure of the image_references table never aborts the analysis.
\* getImageReferences returns the empty list and storeImageReference returns
\* false on a failure, neither throws, and a handleSubmit whose lookup
\* failed still ends in the success state, with a summary whose
\* imageReferences is the generated list alone (and what was uploaded since).
StorageFailureNeverAborts ==
    /\ imageLog.lookup \in {"error", "throws"} =>
          /\ imageLog.stored = <<>>
          /\ \E r \in ReqIds :
                /\ req[r].pc = "done"
                /\ req[r].outcome = "success"
                /\ summaryData.summary # absent
                /\ summaryData.summary.imageReferences =
                      req[r].summary.imageReferences \o imageLog.uploaded
          /\ ~summaryData.isLoading
          /\ summaryData.error = undefined
    /\ (imageLog.store # absent /\ imageLog.store.answer # "ok") =>
          imageLog.store.success = Returned(FALSE)

\* The lookup failed for a video that has a stored row: the summary is shown
\* with the thumbnail only.
LookupFailureSeen ==
    /\ imageLog.lookup = "throws"
    /\ RowsOf(imageTable, videoId) # <<>>
    /\ summaryData.summary # absent
    /\ summaryData.summary.imageReferences = <<ThumbnailOf(videoId)>>
    /\ \E r \in ReqIds : req[r].outcome = "success"

\* C18: summaryData is filled in one order: the video details arrive, then
\* the summary, then images are appended.  In every state a summary is
\* present only with video details; the summary arrives in a state that
\* holds the details and keeps them; and a successful upload appends its
\* image to imageReferences when a summary is present and leaves the state
\* unchanged when none is.
DetailsThenSummaryThenImages ==
    /\ [](summaryData.summary # absent => summaryData.videoDetails # absent)
    /\ [][(summaryData.summary = absent /\ summaryData'.summary # absent) =>
              /\ summaryData.videoDetails # absent
              /\ summaryData'.videoDetails = summaryData.videoDetails]_vars
    /\ [][\A u \in UploadIds :
              (/\ upl[u].pc = "storeRef"
               /\ upl'[u].pc = "idle"
               /\ Len(imageTable') > Len(imageTable)) =>
                  IF summaryData.summary = absent
                  THEN summaryData' = summaryData
                  ELSE /\ summaryData'.summary.imageReferences =
                             summaryData.summary.imageReferences \o <<upl[u].imagePath>>
                       /\ summaryData'.videoDetails = summaryData.videoDetails]_vars

\* An upload succeeded on a page that shows an error and no summary.
UploadWithoutSummarySeen ==
    /\ imageLog.store # absent
    /\ imageLog.store.answer = "ok"
    /\ imageLog.uploaded = <<>>
    /\ summaryData.summary = absent
    /\ ~summaryData.isLoading
    /\ summaryData.error # undefined

UploadTokensDiffer ==
    \A i, j \in 1..Len(uploads) : i # j => uploads[i].token # uploads[j].token

(***************************************************************************)
(* Properties of image resolution                                          *)
(***************************************************************************)

\* C14: for a storage token, neither a full URL nor a YouTube id or URL,
\* getSignedImageUrl returns the signed URL whenever creating it succeeds,
\* the public URL of the same bucket and file path when creating it fails,
\* and null only when the public-URL fallback fails too; it never throws.
SignedThenPublicThenNull ==
    imageResolved.done =>
        /\ imageResolved.signedUrl.ok
        /\ imageInput.kind = "storage" =>
              imageResolved.signedUrl.value =
                  IF imageInput.signed = "ok"
                  THEN "https://project.supabase.co/storage/v1/object/sign/"
                           \o imageInput.bucket \o "/" \o imageInput.path
                  ELSE IF imageInput.public = "ok"
                  THEN "https://project.supabase.co/storage/v1/object/public/"
                           \o imageInput.bucket \o "/" \o imageInput.path
                  ELSE null

\* A path without a bucket whose signed URL could not be created: the
\* public URL in the default bucket is returned.
PublicFallbackSeen ==
    /\ imageResolved.done
    /\ imageInput.token = "cat.png"
    /\ imageInput.signed = "error"
    /\ imageInput.public = "ok"
    /\ imageResolved.asked
    /\ imageResolved.signedUrl.value =
          "https://project.supabase.co/storage/v1/object/public/video-images/cat.png"

\* C15: every image token that is a YouTube video id or a YouTube URL is
\* resolved by getSignedImageUrl and by getImageUrl to the thumbnail URL
\* https://img.youtube.com/vi/<id>/hqdefault.jpg of that video; it is not
\* returned unchanged and not sent to the storage collaborator.
YouTubeTokensGiveThumbnail ==
    (imageResolved.done /\ imageInput.kind = "youtube") =>
        /\ imageResolved.signedUrl.value =
              "https://img.youtube.com/vi/" \o imageInput.id \o "/hqdefault.jpg"
        /\ imageResolved.imageUrl.value =
              "https://img.youtube.com/vi/" \o imageInput.id \o "/hqdefault.jpg"
        /\ imageResolved.signedUrl.value # imageInput.token
        /\ ~imageResolved.asked

\* The items of a sequence that carry timestamp t, in their order.
AtTimestamp(items, t) ==
    LET At(x) == x.timestamp = t
    IN  SelectSeq(items, At)

\* C21: the timestamps sequence generateSummary assembles is a stable sort of
\* keyPoints followed by codeBlocks: it has length |keyPoints| + |codeBlocks|,
\* is non-decreasing in timestamp, and for every timestamp value the items
\* carrying it are exactly those of keyPoints \o codeBlocks, as often as they
\* occur and in that order (key points first, each list in its own order).
TimestampsStableSort ==
    \A r \in Summarised : req[r].captions = "processed" =>
        LET produced == world.transcript.keyPoints \o world.transcript.codeBlocks
            timestamps == req[r].summary.timestamps
        IN  /\ Len(timestamps) =
                  Len(world.transcript.keyPoints) + Len(world.transcript.codeBlocks)
            /\ IsNonDecreasing(timestamps)
            /\ \A t \in 0..MaxTimestamp :
                  AtTimestamp(timestamps, t) = AtTimestamp(produced, t)

\* A key point and two different code blocks produced at one timestamp.
TiedTimestampsSeen ==
    \E r \in Summarised :
        /\ req[r].captions = "processed"
        /\ Len(world.transcript.keyPoints) = 1
        /\ Len(world.transcript.codeBlocks) = 2
        /\ world.transcript.codeBlocks[1].timestamp = world.transcript.keyPoints[1].timestamp
        /\ world.transcript.codeBlocks[2].timestamp = world.transcript.keyPoints[1].timestamp
        /\ world.transcript.codeBlocks[1] # world.transcript.codeBlocks[2]
        /\ Len(req[r].summary.timestamps) = 3

\* The writes of one section of a document, in the order they were made; the
\* first of them is the section's heading.
SectionWrites(writes, section) ==
    LET In(w) == w.section = section
    IN  SelectSeq(writes, In)

\* The document of an export whose rendering raised nothing.
Rendered == exp.pc = "awaitPdf" /\ exp.result.ok

\* C22: every logical block generatePDF writes lies on one page.  At the
\* write of a summary paragraph, of a code snippet with its language label,
\* of a link and of an image entry, the cursor plus the height the block
\* consumes is at most pageHeight - 20, the page-break check before the
\* write having started a new page otherwise.
BlocksFitTheirPage ==
    Rendered =>
        LET writes == exp.result.value.writes
            summary == SectionWrites(writes, "summary")
            code == SectionWrites(writes, "code")
            links == SectionWrites(writes, "links")
            images == SectionWrites(writes, "images")
        IN  /\ \A i \in 2..Len(summary) :
                  summary[i].y + summary[i].lines * 6 + LineHeight <= PageHeight - 20
            /\ \A i \in 2..Len(code) : i % 2 = 0 =>
                  /\ code[i + 1].page = code[i].page
                  /\ code[i].y + LineHeight + code[i + 1].lines * 5
                         + (LineHeight * 3) \div 2 <= PageHeight - 20
            /\ \A i \in 2..Len(links) :
                  links[i].y + links[i].lines * 6 + 2 <= PageHeight - 20
            /\ \A i \in 2..Len(images) :
                  images[i].y + LineHeight <= PageHeight - 20

\* The place of a section in the document.
SectionRank(section) ==
    CASE section = "header" -> 1
      [] section = "summary" -> 2
      [] section = "code" -> 3
      [] section = "links" -> 4
      [] section = "images" -> 5

\* C23: generatePDF writes the header, the summary, the code snippets, the
\* links and the image references in this order and produces the blob from
\* the finished document; the sections of code, links and images, headings
\* included, are written if and only if the list of the summary is not empty,
\* each with its heading first and one entry for every item of the list.
SectionsInOrder ==
    Rendered =>
        LET writes == exp.result.value.writes
            summary == SectionWrites(writes, "summary")
            code == SectionWrites(writes, "code")
            links == SectionWrites(writes, "links")
            images == SectionWrites(writes, "images")
        IN  /\ \A i \in 1..Len(writes), j \in 1..Len(writes) :
                  i < j => SectionRank(writes[i].section) <= SectionRank(writes[j].section)
            /\ Len(SectionWrites(writes, "header")) = 3
            /\ Len(summary) = 1 + Len(SplitParagraphs(exp.summary.text))
            /\ summary[1].text = "Summary"
            /\ Len(code) = IF Len(exp.summary.code) > 0
                           THEN 1 + 2 * Len(exp.summary.code) ELSE 0
            /\ Len(code) > 0 => code[1].text = "Code Snippets"
            /\ Len(links) = IF Len(exp.summary.links) > 0
                            THEN 1 + Len(exp.summary.links) ELSE 0
            /\ Len(links) > 0 => links[1].text = "Referenced Links"
            /\ Len(images) = IF Len(exp.summary.imageReferences) > 0
                             THEN 1 + Len(exp.summary.imageReferences) ELSE 0
            /\ Len(images) > 0 => images[1].text = "Image References"

\* A document without a code section, its links following the summary.
NoCodeSectionSeen ==
    /\ Rendered
    /\ exp.summary.code = <<>>
    /\ Len(exp.summary.links) > 0
    /\ Len(exp.summary.imageReferences) > 0
    /\ SectionWrites(exp.result.value.writes, "code") = <<>>

\* The video a summary was generated for: its first link is the watch URL.
VideoOfSummary(summary) == From(summary.links[1], Len("https://www.youtube.com/watch?v=") + 1)

\* C24: an image reference that an upload appends to the displayed summary
\* belongs to the video of that summary.  Whenever storeImageReference
\* returns to handleUpload and handleImageUploadSuccess appends the
\* reference, the video id the reference was stored under is the video the
\* displayed summary was generated for, also when another analysis was
\* submitted and settled while the upload was in flight.
UploadedImageBelongsToShownVideo ==
    [][\A u \in UploadIds :
          (/\ upl[u].pc = "storeRef"
           /\ upl'[u].pc = "idle"
           /\ summaryData.summary # absent
           /\ summaryData'.summary # absent
           /\ Len(summaryData'.summary.imageReferences)
                  > Len(summaryData.summary.imageReferences))
          => VideoOfSummary(summaryData.summary) = upl[u].videoId]_vars

\* C25: the two id extractions of handleSubmit agree for every submitted
\* URL.  The videoId of the page (Index.extractVideoId) is non-empty exactly
\* when embedUrl (getEmbedUrl over extractVideoID) is, and then embedUrl is
\* https://www.youtube.com/embed/ followed by videoId.
IdExtractionsAgree ==
    videoUrl # "" =>
        /\ Truthy(videoId) <=> Truthy(embedUrl)
        /\ Truthy(videoId) => embedUrl = "https://www.youtube.com/embed/" \o videoId

\* C26: at most one analysis request is in flight at any time.  A request is
\* in flight only while isLoading is true, the URL it was started with is
\* non-blank and passes validateUrl, and no second handleSubmit has started
\* before the first reached its terminal state.
OneRequestInFlight ==
    /\ Cardinality({r \in ReqIds : InFlight(r)}) <= 1
    /\ \A r \in ReqIds : InFlight(r) =>
          /\ summaryData.isLoading
          /\ req[r].url = videoUrl
          /\ ~IsBlank(req[r].url)
          /\ validateUrl(req[r].url)
    /\ \A r \in ReqIds : r > 1 => req[r].pc = "idle"

\* A request in flight that was submitted after an earlier one had settled:
\* an upload begun in between is still running.
ResubmittedSeen ==
    /\ InFlight(1)
    /\ summaryData.isLoading
    /\ \E u \in UploadIds : upl[u].pc # "idle" /\ upl[u].orphan

\* C27: handleUpload calls onSuccess(imagePath) only after
\* storeImageReference returned true, and for a file only after uploadImage
\* returned a token.  In the step in which a handleUpload ends, the displayed
\* summary changes only if the store answered true, and then the reference
\* appended is the one the row just inserted into image_references holds;
\* when the upload or the store failed the summary and the table are
\* unchanged; and in either case isUploading of the uploader that started
\* the call is false again.
OnSuccessOnlyAfterStore ==
    [][\A u \in UploadIds :
          (upl[u].pc # "idle" /\ upl'[u].pc = "idle") =>
              LET stored == /\ upl[u].pc = "storeRef"
                            /\ imageLog'.store # absent
                            /\ imageLog'.store.success = Returned(TRUE)
              IN  /\ summaryData' # summaryData =>
                        /\ stored
                        /\ upl[u].imagePath # null
                        /\ imageTable' =
                              Append(imageTable, [video_id |-> upl[u].videoId,
                                                  image_url |-> upl[u].imagePath])
                        /\ summaryData'.summary.imageReferences =
                              Append(summaryData.summary.imageReferences, upl[u].imagePath)
                  /\ ~stored => (summaryData' = summaryData /\ imageTable' = imageTable)
                  /\ ~upl[u].orphan => ~isUploading']_vars

\* An upload whose reference the table refused, under a summary on display.
StoreRefusedSeen ==
    /\ imageLog.store # absent
    /\ imageLog.store.answer = "error"
    /\ summaryData.summary # absent
    /\ imageTable = <<>>
    /\ ~isUploading
    /\ \A u \in UploadIds : upl[u].pc = "idle"

\* The terminal states of a handleSubmit: success with the summary set, or
\* error with the error set, isLoading false in both.
Terminal(r) ==
    /\ req[r].pc = "done"
    /\ ~summaryData.isLoading
    /\ \/ summaryData.summary # absent /\ summaryData.error = undefined
       \/ summaryData.summary = absent /\ Truthy(summaryData.error)

\* C28: every handleSubmit that is started eventually reaches a terminal
\* state with isLoading false, success or error, on every path through the
\* metadata fetch, the summary generation and the image lookup, when every
\* collaborator call returns or throws.
EverySubmitSettles == \A r \in ReqIds : InFlight(r) ~> Terminal(r)

\* A request that went through every await and ended in success although
\* the image lookup failed.
SettledAfterLookupFailureSeen ==
    /\ Terminal(1)
    /\ summaryData.summary # absent
    /\ imageLog.lookup \in {"error", "throws"}

\* C29: ProtectedRoute renders its children only while a user is signed in.
\* While its getCurrentUser is pending it renders the spinner, it renders
\* the children only after a call that resolved with a user, and in no state
\* reached after a successful signOut, where the identity provider holds no
\* session any more, are the children rendered.
ChildrenOnlyWhileSignedIn ==
    /\ auth.route.pc = "getCurrentUser" => ProtectedRouteRender(auth.route) = "spinner"
    /\ ProtectedRouteRender(auth.route) = "children" => auth.session # null

\* C30: every doc.text of generatePDF starts inside the page body.  Each
\* write is at a y with 20 <= y <= pageHeight - 20; from one write to the
\* next on the same page y grows; and a later page is the next page, begun
\* by checkPageBreak with the cursor at 20, the heading of the code section
\* being written half a line below it.
WritesInsidePageBody ==
    Rendered =>
        LET writes == exp.result.value.writes
        IN  /\ writes[1].page = 1
            /\ writes[1].y = TopMargin
            /\ \A i \in 1..Len(writes) :
                  /\ 20 <= writes[i].y
                  /\ writes[i].y <= PageHeight - 20
            /\ \A i \in 1..(Len(writes) - 1) :
                  IF writes[i + 1].page = writes[i].page
                  THEN writes[i + 1].y > writes[i].y
                  ELSE /\ writes[i + 1].page = writes[i].page + 1
                       /\ writes[i + 1].y =
                             IF writes[i + 1].text = "Code Snippets"
                             THEN 20 + LineHeight \div 2 ELSE 20
            /\ exp.result.value.pages = writes[Len(writes)].page

\* A document of several pages, one of them begun by the heading of the
\* code section and one by a paragraph as long as a page.
PageBreaksSeen ==
    /\ Rendered
    /\ exp.result.value.pages >= 3
    /\ \E i \in 2..Len(exp.result.value.writes) :
          /\ exp.result.value.writes[i].text = "Code Snippets"
          /\ exp.result.value.writes[i].page = exp.result.value.writes[i - 1].page + 1
    /\ \E i \in 1..Len(exp.result.value.writes) :
          /\ exp.result.value.writes[i].lines = MaxLines
          /\ exp.result.value.writes[i].y = 20
====
